---- MODULE Spec2Model ----
(***************************************************************************)
(* postmarketos-mkinitfs: the archive builder (internal/archive), the      *)
(* file-set (internal/filelist), the feature providers, the deviceinfo     *)
(* loader and the driver (main), as state machines.                        *)
(*                                                                         *)
(* A Go string is a sequence of one-character strings, so that byte order, *)
(* prefixes and splitting are computed and not assumed: "/a/l" is          *)
(* <<"/","a","/","l">>.                                                    *)
(***************************************************************************)
EXTENDS Integers, Sequences, FiniteSets, TLC

VARIABLES
    fs,         \* the host filesystem: path -> node
    items,      \* archive.items.items of the archive being built
    mu,         \* archive.items RWMutex: [w |-> holders, r |-> readers]
    callers,    \* goroutines calling archiveItems.add: caller -> [pc, item]
    firstAdds,  \* per name, the item of the first add the lock admitted
    dropped,    \* whether some add found its name present already
    iter,       \* the IterItems goroutine of writeCpio: [pc, idx]
    written,    \* the headers writeCpio has handed to the cpio writer
    flist,      \* the FileList handed to AddItems: source -> destination
    history,    \* the <<source, destination>> pairs recorded in flist, in order
    pending,    \* the sources FileList.IterItems has not delivered yet
    stage,      \* how far the caller of AddItems and Write has come
    pc,         \* where main is
    devinfo,    \* main's DeviceInfo
    deverr,     \* deverr_usr and deverr_etc of main
    retCode,    \* retCode of main
    exit,       \* whether the process has exited, and its exit code
    workDir,    \* the temporary working directory: none, exists or removed
    excludeList,\* excludeList of AddItemsExclude
    archives,   \* the archives Write has written into workDir: name -> items
    failed,     \* the steps of main that have failed
    disableBootDeploy,  \* the flag -no-bootdeploy
    modules,    \* the Modules provider: [modulesList, modulesListPath]
    filelist,   \* a FileList in use by several goroutines, and those goroutines
    call        \* a call of one function of the packages: [op, args, result]

itemsVars == <<mu, callers, firstAdds, dropped, iter>>

addVars == <<flist, history, pending, stage>>

mainVars == <<pc, devinfo, deverr, retCode, exit, workDir, excludeList, archives, failed,
              disableBootDeploy>>

restVars == <<modules, filelist, call>>

vars == <<fs, items, written, itemsVars, addVars, mainVars, restVars>>

\* Go(op, a) is the operator named op applied to the arguments a. An
\* operator that applies other operators is itself applied through Go: TLC's
\* coverage statistics unfold a definition at every place that applies it,
\* and the one recursive operator Go is unfolded once.
RECURSIVE Go(_, _)

----------------------------------------------------------------------------
(* Strings *)

\* The characters in use, in ascending byte order (ASCII).
Alphabet == <<" ", "*", "-", ".", "/", "0", "1", "2", "4", "6", ":", "_", "a", "b", "c", "d", "e", "f", "g",
              "h", "i", "j", "k", "l", "m", "n", "o", "p", "q", "r", "s", "t",
              "u", "v", "w", "x", "y", "z">>

Ord(c) == CHOOSE i \in 1..Len(Alphabet) : Alphabet[i] = c

Min2(a, b) == IF a < b THEN a ELSE b

\* strings.Compare: -1, 0 or 1 by bytewise lexicographic order, decided at
\* the first position where the two differ, or by the lengths
Compare(a, b) ==
    LET differ == { i \in 1..Min2(Len(a), Len(b)) : a[i] # b[i] } IN
    IF differ = {}
        THEN IF Len(a) < Len(b) THEN -1 ELSE IF Len(a) > Len(b) THEN 1 ELSE 0
    ELSE LET i == CHOOSE x \in differ : \A y \in differ : x <= y IN
         IF Ord(a[i]) < Ord(b[i]) THEN -1 ELSE 1

HasPrefix(s, p) == Len(s) >= Len(p) /\ SubSeq(s, 1, Len(p)) = p

HasSuffix(s, p) == Len(s) >= Len(p) /\ SubSeq(s, Len(s) - Len(p) + 1, Len(s)) = p

TrimPrefix(s, p) == IF HasPrefix(s, p) THEN SubSeq(s, Len(p) + 1, Len(s)) ELSE s

\* strings.Split(s, sep) for a one-character sep: the pieces between the
\* seps, the k-th piece lying between the (k-1)-th and the k-th sep
Split(s, sep) ==
    LET seps == { i \in 1..Len(s) : s[i] = sep }
        at(k) == IF k = 0 THEN 0
                 ELSE IF k > Cardinality(seps) THEN Len(s) + 1
                 ELSE CHOOSE i \in seps : Cardinality({ j \in seps : j < i }) = k - 1 IN
    [k \in 1..(Cardinality(seps) + 1) |-> SubSeq(s, at(k - 1) + 1, at(k) - 1)]

\* strings.Join(parts, sep)
RECURSIVE JoinStr(_, _)
JoinStr(parts, sep) ==
    IF Len(parts) = 0 THEN <<>>
    ELSE IF Len(parts) = 1 THEN parts[1]
    ELSE parts[1] \o <<sep>> \o JoinStr(Tail(parts), sep)

\* strings.Cut(s, sep): before, after, found
IndexFrom(s, c, i) ==
    LET found == { j \in i..Len(s) : s[j] = c } IN
    IF found = {} THEN 0 ELSE CHOOSE j \in found : \A k \in found : j <= k

Cut(s, sep) ==
    LET i == IndexFrom(s, sep, 1) IN
    IF i = 0 THEN [before |-> s, after |-> <<>>, found |-> FALSE]
    ELSE [before |-> SubSeq(s, 1, i - 1), after |-> SubSeq(s, i + 1, Len(s)),
          found |-> TRUE]

----------------------------------------------------------------------------
(* path/filepath *)

IsAbs(p) == Len(p) > 0 /\ p[1] = "/"

\* The elements of a path that survive Clean: "" and "." are dropped and
\* ".." removes the element before it (at the root it is dropped; in a
\* relative path a leading ".." is kept).
RECURSIVE CleanElems(_, _, _)
CleanElems(elems, acc, rooted) ==
    IF Len(elems) = 0 THEN acc
    ELSE LET e == Head(elems) IN
         IF e = <<>> \/ e = <<".">> THEN CleanElems(Tail(elems), acc, rooted)
         ELSE IF e = <<".", ".">> THEN
              IF Len(acc) > 0 /\ acc[Len(acc)] # <<".", ".">>
                  THEN CleanElems(Tail(elems), SubSeq(acc, 1, Len(acc) - 1), rooted)
              ELSE IF rooted THEN CleanElems(Tail(elems), acc, rooted)
              ELSE CleanElems(Tail(elems), Append(acc, e), rooted)
         ELSE CleanElems(Tail(elems), Append(acc, e), rooted)

\* filepath.Clean
Clean(p) ==
    IF Len(p) = 0 THEN <<".">>
    ELSE LET kept == CleanElems(Split(p, "/"), <<>>, IsAbs(p))
             body == JoinStr(kept, "/") IN
         IF IsAbs(p) THEN <<"/">> \o body
         ELSE IF Len(body) = 0 THEN <<".">> ELSE body

\* filepath.Join(a, b): empty elements are ignored, the result is Cleaned
Join(a, b) ==
    IF Len(a) = 0 /\ Len(b) = 0 THEN <<>>
    ELSE IF Len(a) = 0 THEN Go("Clean", <<b>>)
    ELSE IF Len(b) = 0 THEN Go("Clean", <<a>>)
    ELSE Go("Clean", <<a \o <<"/">> \o b>>)

LastIndex(s, c, i) ==
    LET found == { j \in 1..i : s[j] = c } IN
    IF found = {} THEN 0 ELSE CHOOSE j \in found : \A k \in found : j >= k

\* filepath.Dir: all but the last element, Cleaned
Dir(p) ==
    LET i == LastIndex(p, "/", Len(p)) IN Go("Clean", <<SubSeq(p, 1, i)>>)

RECURSIVE StripTrailingSlashes(_)
StripTrailingSlashes(p) ==
    IF Len(p) > 0 /\ p[Len(p)] = "/"
        THEN StripTrailingSlashes(SubSeq(p, 1, Len(p) - 1))
    ELSE p

\* filepath.Base
Base(p) ==
    IF Len(p) = 0 THEN <<".">>
    ELSE LET q == StripTrailingSlashes(p) IN
         IF Len(q) = 0 THEN <<"/">>
         ELSE SubSeq(q, LastIndex(q, "/", Len(q)) + 1, Len(q))

----------------------------------------------------------------------------
(* The host filesystem *)

\* A node of the host filesystem. kind: "file", "dir", "link" (a symlink,
\* target holds what readlink returns), "denied" (lstat fails with an error
\* other than ENOENT). elf and needed describe an ELF file: whether
\* elf.Open succeeds and its imported libraries (DT_NEEDED). lines is the
\* content of a text file, one string a line.
Node(kind, target, elf, needed, lines) ==
    [kind |-> kind, target |-> target, elf |-> elf, needed |-> needed, lines |-> lines]

File == Node("file", <<>>, FALSE, <<>>, <<>>)
Dirn == Node("dir", <<>>, FALSE, <<>>, <<>>)
Link(t) == Node("link", t, FALSE, <<>>, <<>>)
Elf(libs) == Node("file", <<>>, TRUE, libs, <<>>)
Text(lines) == Node("file", <<>>, FALSE, <<>>, lines)
Denied == Node("denied", <<>>, FALSE, <<>>, <<>>)

\* How many symlinks the kernel follows in one path lookup before ELOOP
\* (40 on Linux; every chain of the modelled hosts is shorter than this).
MaxSymlinks == 3

\* The physical path p denotes, following every symlink on the way (the
\* last element too): [err, path].
RECURSIVE Resolve(_, _, _)
Resolve(f, p, fuel) ==
    IF p = <<"/">> \/ ~IsAbs(p) THEN [err |-> "nil", path |-> p]
    ELSE LET par == Resolve(f, Go("Dir", <<p>>), fuel) IN
         IF par.err # "nil" THEN par
         ELSE IF par.path # <<"/">> /\ f[par.path].kind # "dir"
             THEN [err |-> "ENOTDIR", path |-> par.path]
         ELSE LET q == Go("Join", <<par.path, Go("Base", <<p>>)>>) IN
              IF q \notin DOMAIN f THEN [err |-> "ENOENT", path |-> q]
              ELSE IF f[q].kind = "denied" THEN [err |-> "EACCES", path |-> q]
              ELSE IF f[q].kind # "link" THEN [err |-> "nil", path |-> q]
              ELSE IF fuel = 0 THEN [err |-> "ELOOP", path |-> q]
              ELSE LET t == f[q].target IN
                   Resolve(f, IF IsAbs(t) THEN Go("Clean", <<t>>) ELSE Go("Join", <<par.path, t>>),
                           fuel - 1)

\* os.Lstat: the node at p, symlinks followed in the directory part only
Lstat(f, p) ==
    IF p = <<"/">> THEN [err |-> "nil", path |-> p, node |-> Dirn]
    ELSE LET par == Go("Resolve", <<f, Go("Dir", <<p>>), MaxSymlinks>>) IN
         IF par.err # "nil" THEN [err |-> par.err, path |-> p, node |-> Denied]
         ELSE IF par.path # <<"/">> /\ IsAbs(par.path) /\ f[par.path].kind # "dir"
             THEN [err |-> "ENOTDIR", path |-> p, node |-> Denied]
         ELSE LET q == Go("Join", <<par.path, Go("Base", <<p>>)>>) IN
              IF q \notin DOMAIN f THEN [err |-> "ENOENT", path |-> q, node |-> Denied]
              ELSE IF f[q].kind = "denied" THEN [err |-> "EACCES", path |-> q, node |-> Denied]
              ELSE [err |-> "nil", path |-> q, node |-> f[q]]

\* os.Stat: the node p denotes after following a final symlink too
Stat(f, p) ==
    LET r == Go("Resolve", <<f, p, MaxSymlinks>>) IN
    IF r.err # "nil" THEN [err |-> r.err, path |-> r.path, node |-> Denied]
    ELSE IF r.path = <<"/">> THEN [err |-> "nil", path |-> r.path, node |-> Dirn]
    ELSE [err |-> "nil", path |-> r.path, node |-> f[r.path]]

\* os.Readlink
Readlink(f, p) ==
    LET st == Go("Lstat", <<f, p>>) IN
    IF st.err # "nil" THEN [err |-> st.err, target |-> <<>>]
    ELSE IF st.node.kind # "link" THEN [err |-> "EINVAL", target |-> <<>>]
    ELSE [err |-> "nil", target |-> st.node.target]

----------------------------------------------------------------------------
(* internal/osutil *)

\* HasMergedUsr that answers true as soon as one of the two is a symlink
HasMergedUsrIfAnySymlink(f) ==
    LET bin == Go("Lstat", <<f, <<"/", "b", "i", "n">>>>)
        lib == Go("Lstat", <<f, <<"/", "l", "i", "b">>>>) IN
    IF bin.err = "nil" /\ bin.node.kind = "link" THEN TRUE
    ELSE IF lib.err = "nil" /\ lib.node.kind = "link" THEN TRUE
    ELSE bin.err # "nil" /\ lib.err # "nil"

\* HasMergedUsr: /bin then /lib; an lstat error answers true, a
\* non-symlink answers false, two symlinks answer true.
HasMergedUsr(f) ==
    LET bin == Go("Lstat", <<f, <<"/", "b", "i", "n">>>>)
        lib == Go("Lstat", <<f, <<"/", "l", "i", "b">>>>) IN
    IF bin.err # "nil" THEN TRUE
    ELSE IF bin.node.kind # "link" THEN FALSE
    ELSE IF lib.err # "nil" THEN TRUE
    ELSE IF lib.node.kind # "link" THEN FALSE
    ELSE TRUE

MergePrefixes == << <<"/", "b", "i", "n">>, <<"/", "s", "b", "i", "n">>,
                    <<"/", "l", "i", "b">>, <<"/", "l", "i", "b", "6", "4">> >>

\* MergeUsr: /usr is prepended when the path has one of the prefixes
MergeUsr(file) ==
    IF \E i \in 1..Len(MergePrefixes) : HasPrefix(file, MergePrefixes[i])
        THEN Go("Join", <<<<"/", "u", "s", "r">>, file>>)
    ELSE file

\* RelativeSymlinkTargetToDir: chdir(dir), filepath.Abs(symPath), chdir back
RelativeSymlinkTargetToDir(f, symPath, dir) ==
    LET d == Go("Stat", <<f, dir>>) IN
    IF d.err # "nil" THEN [err |-> d.err, path |-> <<>>]
    ELSE IF d.node.kind # "dir" THEN [err |-> "ENOTDIR", path |-> <<>>]
    ELSE [err |-> "nil",
          path |-> IF IsAbs(symPath) THEN Go("Clean", <<symPath>>) ELSE Go("Join", <<d.path, symPath>>)]

----------------------------------------------------------------------------
(* internal/archive: the item collection *)

\* An archiveItem: the cpio header's Name, Linkname and type bits of Mode,
\* and the sourcePath. (Size and the permission bits are read from the
\* source path's node and follow from sourcePath.)
Item(name, src, mode, linkname) ==
    [name |-> name, sourcePath |-> src, mode |-> mode, linkname |-> linkname]

\* sort.Search(n, pred): binary search for the least i in 0..n with
\* pred(i), over [lo, hi)
RECURSIVE SearchLoop(_, _, _, _)
SearchLoop(its, name, lo, hi) ==
    IF lo >= hi THEN lo
    ELSE LET h == (lo + hi) \div 2 IN
         IF ~(Go("Compare", <<name, its[h + 1].name>>) <= 0)
             THEN SearchLoop(its, name, h + 1, hi)
         ELSE SearchLoop(its, name, lo, h)

Search(its, name) == Go("SearchLoop", <<its, name, 0, Len(its)>>)

\* The slice after "append one, copy(a.items[i+1:], a.items[i:]), a.items[i] = item"
InsertAt(its, i, item) ==
    SubSeq(its, 1, i) \o <<item>> \o SubSeq(its, i + 1, Len(its))

\* add without the test for an equal name at the insertion point
addKeepsDuplicates(its, item) ==
    IF Len(its) < 1 THEN Append(its, item)
    ELSE LET i == Go("Search", <<its, item.name>>) IN
         IF i >= Len(its) THEN Append(its, item)
         ELSE InsertAt(its, i, item)

\* archiveItems.add, between Lock and the deferred Unlock
add(its, item) ==
    IF Len(its) < 1 THEN Append(its, item)
    ELSE LET i == Go("Search", <<its, item.name>>) IN
         IF i >= Len(its) THEN Append(its, item)
         ELSE IF Go("Compare", <<its[i + 1].name, item.name>>) = 0 THEN its
         ELSE InsertAt(its, i, item)

\* Archive.addDir: a directory item for dir and for each of its parents
RECURSIVE addDirLoop(_, _, _)
addDirLoop(its, subdirs, i) ==
    IF i > Len(subdirs) THEN its
    ELSE LET path == Go("Join", <<JoinStr(SubSeq(subdirs, 1, i - 1), "/"), subdirs[i]>>) IN
         addDirLoop(Go("add", <<its, Item(path, path, "dir", <<>>)>>), subdirs, i + 1)

addDir(its, dir) ==
    LET d == IF dir = <<"/">> THEN <<".">> ELSE dir IN
    [items |-> Go("addDirLoop", <<its, Split(Go("TrimPrefix", <<d, <<"/">>>>), "/"), 1>>),
     err |-> "nil", crashed |-> FALSE]

\* Archive.addFile
addFile(f, its, source, dest) ==
    LET withDirs == Go("addDir", <<its, Go("Dir", <<dest>>)>>).items
        st == Go("Lstat", <<f, source>>) IN
    IF st.err # "nil" THEN [items |-> withDirs, err |-> st.err, crashed |-> FALSE]
    ELSE [items |-> Go("add", <<withDirs, Item(Go("TrimPrefix", <<dest, <<"/">>>>), source, "file", <<>>)>>),
          err |-> "nil", crashed |-> FALSE]

\* The depth of Go calls after which the recursion AddItem -> addSymlink ->
\* AddItem is taken to never return: the goroutine stack overflows and the
\* runtime kills the process.
MaxDepth == 5

\* Archive.AddItem and Archive.addSymlink: [items, err, crashed]
RECURSIVE AddItemAt(_, _, _, _, _)
RECURSIVE addSymlinkAt(_, _, _, _, _)

addSymlinkAt(f, its, source, dest, depth) ==
    LET rl == Go("Readlink", <<f, source>>) IN
    IF rl.err # "nil" THEN [items |-> its, err |-> rl.err, crashed |-> FALSE]
    ELSE LET target == rl.target
             joined == IF Go("Dir", <<target>>) = <<".">> THEN Go("Join", <<Go("Dir", <<source>>), target>>)
                       ELSE target
             rel == IF IsAbs(joined) THEN [err |-> "nil", path |-> joined]
                    ELSE Go("RelativeSymlinkTargetToDir", <<f, joined, Go("Dir", <<source>>)>>) IN
         IF rel.err # "nil" THEN [items |-> its, err |-> rel.err, crashed |-> FALSE]
         ELSE LET t == Go("AddItemAt", <<f, its, rel.path, rel.path, depth + 1>>) IN
              IF t.crashed THEN t
              ELSE \* the error AddItem returned is dropped here
                   [items |-> Go("add", <<t.items, Item(Go("TrimPrefix", <<dest, <<"/">>>>), source,
                                                "symlink", target)>>),
                    err |-> "nil", crashed |-> FALSE]

AddItemAt(f, its, source0, dest0, depth) ==
    IF depth > MaxDepth THEN [items |-> its, err |-> "nil", crashed |-> TRUE]
    ELSE LET merged == Go("HasMergedUsr", <<f>>)
             source == IF merged THEN Go("MergeUsr", <<source0>>) ELSE source0
             dest == IF merged THEN Go("MergeUsr", <<dest0>>) ELSE dest0
             st == Go("Lstat", <<f, source>>) IN
         IF st.err = "ENOENT" THEN Go("addDir", <<its, dest>>)
         ELSE IF st.err # "nil" THEN [items |-> its, err |-> st.err, crashed |-> FALSE]
         ELSE IF st.node.kind = "link" THEN Go("addSymlinkAt", <<f, its, source, dest, depth>>)
         ELSE IF st.node.kind = "dir" THEN Go("addDir", <<its, dest>>)
         ELSE Go("addFile", <<f, its, source, dest>>)

AddItem(f, its, source, dest) == Go("AddItemAt", <<f, its, source, dest, 1>>)

addSymlink(f, its, source, dest) == Go("addSymlinkAt", <<f, its, source, dest, 1>>)

\* copyToArchive of writeCpio: the header is written, then the body: a
\* regular file is opened and copied, a symlink's body is its link name
copyToArchive(f, item) ==
    IF item.mode = "dir" THEN "nil"
    ELSE IF item.mode = "file" THEN Go("Stat", <<f, item.sourcePath>>).err
    ELSE IF item.linkname # <<>> THEN "nil"
    ELSE "unknown type"

\* The head of writeCpio: on a merged-usr host /bin, /sbin and /lib are
\* added as symlinks; what addSymlink returns is not looked at
writeCpioLinks(f, its) ==
    IF ~Go("HasMergedUsr", <<f>>) THEN [items |-> its, err |-> "nil", crashed |-> FALSE]
    ELSE LET a == Go("addSymlink", <<f, its, <<"/", "b", "i", "n">>, <<"/", "b", "i", "n">>>>)
             b == Go("addSymlink", <<f, a.items, <<"/", "s", "b", "i", "n">>,
                             <<"/", "s", "b", "i", "n">>>>)
             c == Go("addSymlink", <<f, b.items, <<"/", "l", "i", "b">>, <<"/", "l", "i", "b">>>>) IN
         [items |-> c.items, err |-> "nil",
          crashed |-> a.crashed \/ b.crashed \/ c.crashed]

----------------------------------------------------------------------------
(* Sets of strings in byte order; path/filepath Glob and Walk *)

MinStr(S) == CHOOSE x \in S : \A y \in S : Go("Compare", <<x, y>>) <= 0

\* sort.Strings of the elements of S
RECURSIVE SortStrings(_)
SortStrings(S) ==
    IF S = {} THEN <<>>
    ELSE LET m == Go("MinStr", <<S>>) IN <<m>> \o SortStrings(S \ {m})

\* hasMeta of filepath.Glob ("*" is the one magic character in use)
HasMeta(p) == \E i \in 1..Len(p) : p[i] = "*"

\* filepath.Match of one path element against a pattern with "*"
RECURSIVE MatchElem(_, _)
MatchElem(pat, name) ==
    IF Len(pat) = 0 THEN Len(name) = 0
    ELSE IF pat[1] = "*"
        THEN MatchElem(Tail(pat), name)
             \/ (Len(name) > 0 /\ MatchElem(pat, Tail(name)))
    ELSE Len(name) > 0 /\ pat[1] = name[1] /\ MatchElem(Tail(pat), Tail(name))

\* The names in the directory at physical path d
DirNames(f, d) == { Go("Base", <<p>>) : p \in { q \in DOMAIN f : Go("Dir", <<q>>) = d } }

\* glob of filepath: the entries of dir that match pattern
globDir(f, dir, pattern) ==
    LET st == Go("Stat", <<f, dir>>) IN
    IF st.err # "nil" \/ st.node.kind # "dir" THEN {}
    ELSE { Go("Join", <<dir, n>>) : n \in { m \in Go("DirNames", <<f, st.path>>) : MatchElem(pattern, m) } }

\* filepath.Glob, as the set of its matches
RECURSIVE Glob(_, _)
Glob(f, pattern) ==
    IF ~HasMeta(pattern)
        THEN IF Go("Lstat", <<f, pattern>>).err = "nil" THEN {pattern} ELSE {}
    ELSE LET dir == Go("Dir", <<pattern>>)
             file == Go("Base", <<pattern>>)
             dirs == IF HasMeta(dir) THEN Glob(f, dir) ELSE {dir} IN
         UNION { Go("globDir", <<f, d, file>>) : d \in dirs }

\* filepath.Walk(root, fn) as far as the callers use it: the paths handed to
\* fn that are not directories, or the error of the first failing lstat.
\* Walk does not follow symlinks: a root that is a symlink is handed to fn
\* as a non-directory.
Walk(f, root) ==
    LET st == Go("Lstat", <<f, root>>) IN
    IF st.err # "nil" THEN [err |-> st.err, files |-> {}, all |-> {}]
    ELSE IF st.node.kind # "dir" THEN [err |-> "nil", files |-> {root}, all |-> {root}]
    ELSE LET pre == IF st.path = <<"/">> THEN st.path ELSE st.path \o <<"/">>
             under == { p \in DOMAIN f : HasPrefix(p, pre) }
             rel(p) == SubSeq(p, Len(pre) + 1, Len(p)) IN
         IF \E p \in under : f[p].kind = "denied"
             THEN [err |-> "EACCES", files |-> {}, all |-> {}]
         ELSE [err |-> "nil",
               files |-> { Go("Join", <<root, rel(p)>>) : p \in { q \in under : f[q].kind # "dir" } },
               all |-> {root} \cup { Go("Join", <<root, rel(p)>>) : p \in under }]

\* os.ReadDir: the names in dir, sorted
ReadDir(f, dir) ==
    LET st == Go("Stat", <<f, dir>>) IN
    IF st.err # "nil" THEN [err |-> st.err, names |-> <<>>]
    ELSE IF st.node.kind # "dir" THEN [err |-> "ENOTDIR", names |-> <<>>]
    ELSE [err |-> "nil", names |-> Go("SortStrings", <<Go("DirNames", <<f, st.path>>)>>)]

\* os.Open followed by a bufio.Scanner over the file: its lines
ReadLines(f, path) ==
    LET st == Go("Stat", <<f, path>>) IN
    IF st.err # "nil" THEN [err |-> st.err, lines |-> <<>>, scanErr |-> "nil"]
    ELSE IF st.node.kind = "dir" THEN [err |-> "nil", lines |-> <<>>, scanErr |-> "EISDIR"]
    ELSE [err |-> "nil", lines |-> st.node.lines, scanErr |-> "nil"]

----------------------------------------------------------------------------
(* internal/misc: GetFiles and the ELF dependencies *)

\* elf.Open(file) succeeds
ElfOpen(f, file) ==
    LET st == Go("Stat", <<f, file>>) IN st.err = "nil" /\ st.node.kind = "file" /\ st.node.elf

\* ImportedLibraries of the ELF file
ImportedLibraries(f, file) == Go("Stat", <<f, file>>).node.needed

LibdirGlobs == << <<"/", "u", "s", "r", "/", "l", "i", "b">>,
                  <<"/", "l", "i", "b">>,
                  <<"/", "u", "s", "r", "/", "l", "i", "b", "/", "e", "x", "p", "e", "c", "t", "*">> >>

\* The directories getDeps probes, in order
Libdirs(f) ==
    Go("SortStrings", <<Go("Glob", <<f, LibdirGlobs[1]>>)>>) \o Go("SortStrings", <<Go("Glob", <<f, LibdirGlobs[2]>>)>>)
        \o Go("SortStrings", <<Go("Glob", <<f, LibdirGlobs[3]>>)>>)

\* findDepLoop: the first libdir/lib that os.Stat finds, <<>> when none does
RECURSIVE FindLibFrom(_, _, _, _)
FindLibFrom(f, dirs, lib, i) ==
    IF i > Len(dirs) THEN <<>>
    ELSE IF Go("Stat", <<f, Go("Join", <<dirs[i], lib>>)>>).err = "nil" THEN Go("Join", <<dirs[i], lib>>)
    ELSE FindLibFrom(f, dirs, lib, i + 1)

FindLib(f, lib) == Go("FindLibFrom", <<f, Go("Libdirs", <<f>>), lib, 1>>)

\* getDeps: [files, err, at, parents, opened, crashed], parents being the
\* visited set the recursion shares, at the file and the library the error
\* names, opened the paths given to elf.Open, in order; crashed when the
\* recursion is deeper than MaxDepth
RECURSIVE getDeps(_, _, _, _)
RECURSIVE getDepsLibs(_, _, _, _, _, _, _)

\* A visited set handed down to the libraries but not back up
RECURSIVE getDepsLibsByValue(_, _, _, _, _, _, _)
getDepsLibsByValue(f, file, libs, i, files, parents, depth) ==
    IF i > Len(libs)
        THEN [files |-> files, err |-> "nil", at |-> <<>>, parents |-> parents,
              opened |-> <<>>, crashed |-> FALSE]
    ELSE LET path == Go("FindLib", <<f, libs[i]>>) IN
         IF path = <<>>
             THEN [files |-> {}, err |-> "unable to locate dependency",
                   at |-> <<file, libs[i]>>, parents |-> parents,
                   opened |-> <<>>, crashed |-> FALSE]
         ELSE LET d == Go("getDeps", <<f, path, parents, depth + 1>>) IN
              IF d.crashed \/ d.err # "nil"
                  THEN [files |-> {}, err |-> d.err, at |-> d.at, parents |-> d.parents,
                        opened |-> d.opened, crashed |-> d.crashed]
              ELSE LET r == getDepsLibsByValue(f, file, libs, i + 1,
                                               files \cup d.files \cup {path},
                                               parents, depth) IN
                   [r EXCEPT !.opened = d.opened \o @]

getDepsLibs(f, file, libs, i, files, parents, depth) ==
    IF i > Len(libs)
        THEN [files |-> files, err |-> "nil", at |-> <<>>, parents |-> parents,
              opened |-> <<>>, crashed |-> FALSE]
    ELSE LET path == Go("FindLib", <<f, libs[i]>>) IN
         IF path = <<>>
             THEN [files |-> {}, err |-> "unable to locate dependency",
                   at |-> <<file, libs[i]>>, parents |-> parents,
                   opened |-> <<>>, crashed |-> FALSE]
         ELSE LET d == Go("getDeps", <<f, path, parents, depth + 1>>) IN
              IF d.crashed \/ d.err # "nil"
                  THEN [files |-> {}, err |-> d.err, at |-> d.at, parents |-> d.parents,
                        opened |-> d.opened, crashed |-> d.crashed]
              ELSE LET r == getDepsLibs(f, file, libs, i + 1,
                                        files \cup d.files \cup {path},
                                        d.parents, depth) IN
                   [r EXCEPT !.opened = d.opened \o @]

getDeps(f, file, parents, depth) ==
    IF depth > MaxDepth
        THEN [files |-> {}, err |-> "nil", at |-> <<>>, parents |-> parents,
              opened |-> <<>>, crashed |-> TRUE]
    ELSE IF file \in parents
        THEN [files |-> {}, err |-> "nil", at |-> <<>>, parents |-> parents,
              opened |-> <<>>, crashed |-> FALSE]
    ELSE IF ~Go("ElfOpen", <<f, file>>)
        THEN [files |-> {}, err |-> "unable to open elf binary", at |-> <<file>>,
              parents |-> parents, opened |-> <<file>>, crashed |-> FALSE]
    ELSE LET libs == Go("ImportedLibraries", <<f, file>>) IN
         IF Len(libs) = 0
             THEN [files |-> {file}, err |-> "nil", at |-> <<>>,
                   parents |-> parents \cup {file}, opened |-> <<file>>, crashed |-> FALSE]
         ELSE LET r == Go("getDepsLibs", <<f, file, libs, 1, {file}, parents \cup {file}, depth>>) IN
              [r EXCEPT !.opened = <<file>> \o @]

\* getBinaryDeps: a symlink is replaced by its target, then getDeps with a
\* new visited set
getBinaryDeps(f, file) ==
    LET st == Go("Lstat", <<f, file>>) IN
    IF st.err # "nil"
        THEN [files |-> {}, err |-> st.err, at |-> <<>>, opened |-> <<>>, crashed |-> FALSE]
    ELSE IF st.node.kind # "link"
        THEN LET d == Go("getDeps", <<f, file, {}, 1>>) IN
             [files |-> d.files, err |-> d.err, at |-> d.at, opened |-> d.opened,
              crashed |-> d.crashed]
    ELSE LET target == st.node.target
             rel == IF IsAbs(target) THEN [err |-> "nil", path |-> target]
                    ELSE Go("RelativeSymlinkTargetToDir", <<f, target, Go("Dir", <<file>>)>>) IN
         IF rel.err # "nil"
             THEN [files |-> {}, err |-> rel.err, at |-> <<>>, opened |-> <<>>,
                   crashed |-> FALSE]
         ELSE LET d == Go("getDeps", <<f, rel.path, {}, 1>>) IN
              [files |-> d.files, err |-> d.err, at |-> d.at, opened |-> d.opened,
               crashed |-> d.crashed]

BinSlash == <<"/", "b", "i", "n", "/">>
SbinSlash == <<"/", "s", "b", "i", "n", "/">>
ZstExt == <<".", "z", "s", "t">>

\* A fallback that looks for the extension of the zstd tool
ZstdNameWithToolExtension(file) == file \o <<".", "z", "s", "t", "d">>

\* fileZstd := file + ".zst"
ZstdName(file) == file \o ZstExt

\* getFile and getFileNormalized: [files, err, at, crashed]. The files are a
\* set: every caller passes them through RemoveDuplicates, which returns
\* them in no fixed order, and the files gathered before an error are
\* dropped by GetFiles.
RECURSIVE getFileAt(_, _, _, _)
RECURSIVE getFileNormalizedAt(_, _, _, _)
RECURSIVE getFileEach(_, _, _, _, _, _)

\* the loop "for each path: getFile(path, required)", stopping at an error
getFileEach(f, paths, i, required, files, depth) ==
    IF i > Len(paths) THEN [files |-> files, err |-> "nil", at |-> <<>>, crashed |-> FALSE]
    ELSE LET r == Go("getFileAt", <<f, paths[i], required, depth>>) IN
         IF r.crashed \/ r.err # "nil"
             THEN [files |-> files, err |-> r.err, at |-> r.at, crashed |-> r.crashed]
         ELSE getFileEach(f, paths, i + 1, required, files \cup r.files, depth)

getFileNormalizedAt(f, file, required, depth) ==
    IF depth > MaxDepth THEN [files |-> {}, err |-> "nil", at |-> <<>>, crashed |-> TRUE]
    ELSE LET st == Go("Stat", <<f, file>>) IN
    IF st.err # "nil" THEN
        LET fileUsr == Go("Join", <<<<"/", "u", "s", "r">>, file>>)
            fileZstd == ZstdName(file) IN
        IF (HasPrefix(file, BinSlash) \/ HasPrefix(file, SbinSlash))
               /\ Go("Stat", <<f, fileUsr>>).err = "nil"
            THEN getFileNormalizedAt(f, fileUsr, required, depth + 1)
        ELSE IF Go("Stat", <<f, fileZstd>>).err = "nil"
            THEN getFileNormalizedAt(f, fileZstd, required, depth + 1)
        ELSE IF required THEN [files |-> {}, err |-> "failed to stat file", at |-> <<>>, crashed |-> FALSE]
        ELSE [files |-> {}, err |-> "nil", at |-> <<>>, crashed |-> FALSE]
    ELSE IF st.node.kind = "dir" THEN
        LET w == Go("Walk", <<f, file>>) IN
        IF w.err # "nil" THEN [files |-> {}, err |-> w.err, at |-> <<>>, crashed |-> FALSE]
        ELSE Go("getFileEach", <<f, Go("SortStrings", <<w.files>>), 1, required, {}, depth + 1>>)
    ELSE IF Go("ElfOpen", <<f, file>>) THEN
        LET d == Go("getBinaryDeps", <<f, file>>) IN
        IF d.crashed THEN [files |-> {}, err |-> "nil", at |-> <<>>, crashed |-> TRUE]
        ELSE IF d.err # "nil" THEN [files |-> {file}, err |-> d.err, at |-> d.at, crashed |-> FALSE]
        ELSE [files |-> {file} \cup d.files, err |-> "nil", at |-> <<>>, crashed |-> FALSE]
    ELSE [files |-> {file}, err |-> "nil", at |-> <<>>, crashed |-> FALSE]

getFileAt(f, file, required, depth) ==
    LET expanded == Go("Glob", <<f, file>>) IN
    IF expanded # {} /\ Go("MinStr", <<expanded>>) # file
        THEN Go("getFileEach", <<f, Go("SortStrings", <<expanded>>), 1, required, {}, depth>>)
    ELSE Go("getFileNormalizedAt", <<f, file, required, depth>>)

getFile(f, file, required) == Go("getFileAt", <<f, file, required, 1>>)

getFileNormalized(f, file, required) == Go("getFileNormalizedAt", <<f, file, required, 1>>)

\* GetFiles: nil and the error when a getFile fails
RECURSIVE GetFilesFrom(_, _, _, _, _)
GetFilesFrom(f, list, i, required, files) ==
    IF i > Len(list) THEN [files |-> files, err |-> "nil", at |-> <<>>, crashed |-> FALSE]
    ELSE LET r == Go("getFile", <<f, list[i], required>>) IN
         IF r.crashed \/ r.err # "nil"
             THEN [files |-> {}, err |-> r.err, at |-> r.at, crashed |-> r.crashed]
         ELSE GetFilesFrom(f, list, i + 1, required, files \cup r.files)

\* A GetFiles that returns, along with the error, what getFile returned for
\* the first entry of the list
GetFilesKeepsGathered(f, list, required) ==
    LET r == Go("GetFilesFrom", <<f, list, 1, required, {}>>) IN
    IF r.err = "nil" THEN r
    ELSE [r EXCEPT !.files = Go("getFile", <<f, list[1], required>>).files]

GetFiles(f, list, required) == Go("GetFilesFrom", <<f, list, 1, required, {}>>)

----------------------------------------------------------------------------
(* internal/filelist *)

\* NewFileList: the empty map from source to destination
NewFileList == [x \in {} |-> <<>>]

\* Add that keeps the destination a source has already
AddKeepsFirst(m, src, dest) ==
    [x \in DOMAIN m \cup {src} |-> IF x \in DOMAIN m THEN m[x] ELSE dest]

\* FileList.Add: f.m[src] = dest
Add(m, src, dest) == [x \in DOMAIN m \cup {src} |-> IF x = src THEN dest ELSE m[x]]

\* FileList.Get
Get(m, src) ==
    IF src \in DOMAIN m THEN [dest |-> m[src], found |-> TRUE]
    ELSE [dest |-> <<>>, found |-> FALSE]

\* FileList.Import: Add of every entry of src (the keys of src are
\* distinct, so the order IterItems delivers them in does not show)
Import(m, src) ==
    [x \in DOMAIN m \cup DOMAIN src |-> IF x \in DOMAIN src THEN src[x] ELSE m[x]]

\* files.Add(p, p) for every p of a set of paths
AddAllSame(m, paths) ==
    [x \in DOMAIN m \cup paths |-> IF x \in paths THEN x ELSE m[x]]

Listed(list) == [list |-> list, err |-> "nil", crashed |-> FALSE]

ListFailed(err) == [list |-> NewFileList, err |-> err, crashed |-> FALSE]

ListCrashed == [list |-> NewFileList, err |-> "nil", crashed |-> TRUE]

----------------------------------------------------------------------------
(* internal/filelist/hookdirs, hookfiles, hookscripts *)

\* HookDirs.List: every line of every file of the directory is a directory
\* to create, src = dest = line
RECURSIVE hookDirsFiles(_, _, _, _, _)
hookDirsFiles(f, path, names, i, files) ==
    IF i > Len(names) THEN Listed(files)
    ELSE LET rd == Go("ReadLines", <<f, Go("Join", <<path, names[i]>>)>>) IN
         IF rd.err # "nil" THEN ListFailed(rd.err)
         ELSE hookDirsFiles(f, path, names, i + 1,
                            AddAllSame(files, { rd.lines[k] : k \in 1..Len(rd.lines) }))

HookDirsList(f, path) ==
    LET d == Go("ReadDir", <<f, path>>) IN
    IF d.err # "nil" THEN Listed(NewFileList)
    ELSE Go("hookDirsFiles", <<f, path, d.names, 1, NewFileList>>)

\* HookFiles.List: every line of every file goes through GetFiles
\* (required), each file found is added with dest = src
RECURSIVE hookFilesLines(_, _, _, _)
hookFilesLines(f, lines, k, files) ==
    IF k > Len(lines) THEN Listed(files)
    ELSE LET g == Go("GetFiles", <<f, <<lines[k]>>, TRUE>>) IN
         IF g.crashed THEN ListCrashed
         ELSE IF g.err # "nil" THEN ListFailed(g.err)
         ELSE hookFilesLines(f, lines, k + 1, AddAllSame(files, g.files))

RECURSIVE hookFilesFiles(_, _, _, _, _)
hookFilesFiles(f, path, names, i, files) ==
    IF i > Len(names) THEN Listed(files)
    ELSE LET rd == Go("ReadLines", <<f, Go("Join", <<path, names[i]>>)>>) IN
         IF rd.err # "nil" THEN ListFailed(rd.err)
         ELSE LET r == Go("hookFilesLines", <<f, rd.lines, 1, files>>) IN
              IF r.crashed \/ r.err # "nil" THEN r
              ELSE IF rd.scanErr # "nil" THEN ListFailed(rd.scanErr)
              ELSE hookFilesFiles(f, path, names, i + 1, r.list)

HookFilesList(f, path) ==
    LET d == Go("ReadDir", <<f, path>>) IN
    IF d.err # "nil" THEN ListFailed(d.err)
    ELSE Go("hookFilesFiles", <<f, path, d.names, 1, NewFileList>>)

\* FileList.AddGlobbed(src, dest): src is expanded by GetFiles (required);
\* a single file found is recorded under dest, several files each under
\* their own path
AddGlobbed(f, m, src, dest) ==
    LET g == Go("GetFiles", <<f, <<src>>, TRUE>>) IN
    IF g.crashed THEN ListCrashed
    ELSE IF g.err # "nil" THEN ListFailed(g.err)
    ELSE Listed([x \in DOMAIN m \cup g.files |->
                    IF x \notin g.files THEN m[x]
                    ELSE IF Cardinality(g.files) = 1 THEN dest ELSE x])

\* slurpFiles: every line is cut at its first ":", dest = src when the line
\* has no ":"; nil and the error when an AddGlobbed fails (the reader
\* delivers its lines without error, so s.Err() is nil)
RECURSIVE slurpFilesFrom(_, _, _, _)
slurpFilesFrom(f, lines, i, files) ==
    IF i > Len(lines) THEN Listed(files)
    ELSE LET c == Go("Cut", <<lines[i], ":">>)
             dest == IF ~c.found THEN c.before ELSE c.after
             r == Go("AddGlobbed", <<f, files, c.before, dest>>) IN
         IF r.crashed \/ r.err # "nil" THEN r
         ELSE slurpFilesFrom(f, lines, i + 1, r.list)

slurpFiles(f, lines) == Go("slurpFilesFrom", <<f, lines, 1, NewFileList>>)

\* HookScripts.List: every entry of scriptsDir, to destPath under its name
RECURSIVE hookScriptsFiles(_, _, _, _, _)
hookScriptsFiles(scriptsDir, destPath, names, i, files) ==
    IF i > Len(names) THEN Listed(files)
    ELSE hookScriptsFiles(scriptsDir, destPath, names, i + 1,
                          Add(files, Go("Join", <<scriptsDir, names[i]>>), Go("Join", <<destPath, names[i]>>)))

HookScriptsList(f, scriptsDir, destPath) ==
    LET d == Go("ReadDir", <<f, scriptsDir>>) IN
    IF d.err # "nil" THEN Listed(NewFileList)
    ELSE Go("hookScriptsFiles", <<scriptsDir, destPath, d.names, 1, NewFileList>>)

----------------------------------------------------------------------------
(* internal/osutil: the kernel version *)

KernelReleaseGlob == <<"/", "u", "s", "r", "/", "s", "h", "a", "r", "e", "/", "k", "e", "r", "n", "e", "l", "/", "*", "/", "k", "e", "r", "n", "e", "l", ".", "r", "e", "l", "e", "a", "s", "e">>

\* GetKernelVersion: the trimmed content of the one kernel.release file
GetKernelVersion(f) ==
    LET found == Go("Glob", <<f, KernelReleaseGlob>>) IN
    IF Cardinality(found) # 1 THEN [err |-> "only one kernel release", version |-> <<>>]
    ELSE LET rd == Go("ReadLines", <<f, Go("MinStr", <<found>>)>>) IN
         IF rd.err # "nil" THEN [err |-> rd.err, version |-> <<>>]
         ELSE IF rd.scanErr # "nil" THEN [err |-> rd.scanErr, version |-> <<>>]
         ELSE [err |-> "nil",
               version |-> IF Len(rd.lines) = 0 THEN <<>> ELSE rd.lines[1]]

\* misc.Exists: (true, nil), (false, nil) when the file does not exist,
\* (false, err) for every other error of os.Stat
Exists(f, file) ==
    LET st == Go("Stat", <<f, file>>) IN
    IF st.err = "nil" THEN [exists |-> TRUE, err |-> "nil"]
    ELSE IF st.err = "ENOENT" THEN [exists |-> FALSE, err |-> "nil"]
    ELSE [exists |-> FALSE, err |-> st.err]

----------------------------------------------------------------------------
(* internal/filelist/modules *)

\* strings.Fields: the pieces between runs of spaces
Fields(line) == SelectSeq(Split(line, " "), LAMBDA x : Len(x) > 0)

TrimSuffix(x, suf) == IF HasSuffix(x, suf) THEN SubSeq(x, 1, Len(x) - Len(suf)) ELSE x

\* stripExts: what precedes the first "."
stripExts(file) == Split(file, ".")[1]

\* filepath.Ext: the suffix of the last element from its last "."
Ext(path) ==
    LET i == LastIndex(path, ".", Len(path)) IN
    IF i = 0 \/ i < LastIndex(path, "/", Len(path)) THEN <<>>
    ELSE SubSeq(path, i, Len(path))

IsSep(c) == c = "-" \/ c = "_"

\* The expression getModuleDeps compiles: "^", the module name with every
\* run of "-" and "_" replaced by "[-_]+", "$". As tokens: "sep" for
\* [-_]+, "any" for ".", the character itself otherwise.
RECURSIVE ModNameRe(_, _)
ModNameRe(modName, i) ==
    IF i > Len(modName) THEN <<>>
    ELSE IF IsSep(modName[i])
        THEN IF i > 1 /\ IsSep(modName[i - 1]) THEN ModNameRe(modName, i + 1)
             ELSE <<"sep">> \o ModNameRe(modName, i + 1)
    ELSE IF modName[i] = "." THEN <<"any">> \o ModNameRe(modName, i + 1)
    ELSE <<modName[i]>> \o ModNameRe(modName, i + 1)

\* whether the anchored expression matches x
RECURSIVE ReMatch(_, _)
ReMatch(re, x) ==
    IF Len(re) = 0 THEN Len(x) = 0
    ELSE IF Len(x) = 0 THEN FALSE
    ELSE IF re[1] = "sep"
        THEN IsSep(x[1]) /\ (ReMatch(Tail(re), Tail(x)) \/ ReMatch(re, Tail(x)))
    ELSE IF re[1] = "any" THEN ReMatch(Tail(re), Tail(x))
    ELSE re[1] = x[1] /\ ReMatch(Tail(re), Tail(x))

\* getModuleDeps: the fields of the first line whose module matches
RECURSIVE getModuleDepsFrom(_, _, _)
getModuleDepsFrom(re, lines, i) ==
    IF i > Len(lines) THEN <<>>
    ELSE LET fields == Go("Fields", <<lines[i]>>) IN
         IF Len(fields) = 0 THEN getModuleDepsFrom(re, lines, i + 1)
         ELSE LET first == Go("TrimSuffix", <<fields[1], <<":">>>>) IN
              IF Go("ReMatch", <<re, Go("Base", <<Go("stripExts", <<first>>)>>)>>)
                  THEN <<first>> \o Tail(fields)
              ELSE getModuleDepsFrom(re, lines, i + 1)

getModuleDeps(modName, lines) == Go("getModuleDepsFrom", <<Go("ModNameRe", <<modName, 1>>), lines, 1>>)

ModulesDepName == <<"m", "o", "d", "u", "l", "e", "s", ".", "d", "e", "p">>

\* getModule: the module and its dependencies under modDir, all of which
\* must exist: [files, err]
RECURSIVE getModuleCheck(_, _, _, _, _)
getModuleCheck(f, modDir, deps, i, files) ==
    IF i > Len(deps) THEN [files |-> files, err |-> "nil"]
    ELSE LET p == Go("Join", <<modDir, deps[i]>>) IN
         IF ~Go("Exists", <<f, p>>).exists
             THEN [files |-> {}, err |-> "module does not exist in the modules directory"]
         ELSE getModuleCheck(f, modDir, deps, i + 1, files \cup {p})

\* getModule that leaves out the paths that do not exist
getModuleSkipsMissing(f, modName, modDir) ==
    LET modDep == Go("Join", <<modDir, ModulesDepName>>) IN
    IF ~Go("Exists", <<f, modDep>>).exists THEN [files |-> {}, err |-> "kernel module.dep not found"]
    ELSE LET rd == Go("ReadLines", <<f, modDep>>)
             deps == Go("getModuleDeps", <<modName, rd.lines>>) IN
         IF rd.err # "nil" THEN [files |-> {}, err |-> rd.err]
         ELSE IF rd.scanErr # "nil" THEN [files |-> {}, err |-> rd.scanErr]
         ELSE [files |-> { p \in { Go("Join", <<modDir, deps[i]>>) : i \in DOMAIN deps } :
                               Go("Exists", <<f, p>>).exists },
               err |-> "nil"]

getModule(f, modName, modDir) ==
    LET modDep == Go("Join", <<modDir, ModulesDepName>>) IN
    IF ~Go("Exists", <<f, modDep>>).exists THEN [files |-> {}, err |-> "kernel module.dep not found"]
    ELSE LET rd == Go("ReadLines", <<f, modDep>>) IN
         IF rd.err # "nil" THEN [files |-> {}, err |-> rd.err]
         ELSE IF rd.scanErr # "nil" THEN [files |-> {}, err |-> rd.scanErr]
         ELSE Go("getModuleCheck", <<f, modDir, Go("getModuleDeps", <<modName, rd.lines>>), 1, {}>>)

KoExt == <<".", "k", "o">>
XzExt == <<".", "x", "z">>

\* getModulesInDir: every path under modPath that ends in .ko or .xz
getModulesInDir(f, modPath) ==
    LET w == Go("Walk", <<f, modPath>>) IN
    IF w.err # "nil" THEN [files |-> {}, err |-> w.err]
    ELSE [files |-> { p \in w.all : Go("Ext", <<p>>) = KoExt \/ Go("Ext", <<p>>) = XzExt }, err |-> "nil"]

\* filepath.Split: the directory with its trailing slash, and the file
SplitPath(path) ==
    LET i == LastIndex(path, "/", Len(path)) IN
    [dir |-> SubSeq(path, 1, i), file |-> SubSeq(path, i + 1, Len(path))]

RECURSIVE modulesInDirs(_, _, _, _)
modulesInDirs(f, dirs, i, files) ==
    IF i > Len(dirs) THEN Listed(files)
    ELSE LET r == Go("getModulesInDir", <<f, dirs[i]>>) IN
         IF r.err # "nil" THEN ListFailed(r.err)
         ELSE modulesInDirs(f, dirs, i + 1, AddAllSame(files, r.files))

\* slurpModules: a line ending in "/" is a directory under modDir, a line
\* without "/" a module name, anything else is logged and skipped
RECURSIVE slurpModulesFrom(_, _, _, _, _)
slurpModulesFrom(f, lines, i, modDir, files) ==
    IF i > Len(lines) THEN Listed(files)
    ELSE LET sp == Go("SplitPath", <<lines[i]>>) IN
         IF sp.file = <<>> THEN
             LET r == Go("modulesInDirs", <<f, Go("SortStrings", <<Go("Glob", <<f, Go("Join", <<modDir, sp.dir>>)>>)>>), 1, files>>) IN
             IF r.err # "nil" THEN r
             ELSE slurpModulesFrom(f, lines, i + 1, modDir, r.list)
         ELSE IF sp.dir = <<>> THEN
             LET r == Go("getModule", <<f, lines[i], modDir>>) IN
             IF r.err # "nil" THEN ListFailed(r.err)
             ELSE slurpModulesFrom(f, lines, i + 1, modDir, AddAllSame(files, r.files))
         ELSE slurpModulesFrom(f, lines, i + 1, modDir, files)

slurpModules(f, lines, modDir) == Go("slurpModulesFrom", <<f, lines, 1, modDir, NewFileList>>)

\* the loop of Modules.List over modulesList
RECURSIVE modulesFromList(_, _, _, _, _)
modulesFromList(f, modulesList, i, modDir, files) ==
    IF i > Len(modulesList) THEN Listed(files)
    ELSE LET r == Go("getModule", <<f, modulesList[i], modDir>>) IN
         IF r.err # "nil" THEN ListFailed(r.err)
         ELSE modulesFromList(f, modulesList, i + 1, modDir, AddAllSame(files, r.files))

\* the loop of Modules.List over the list files of modulesListPath
RECURSIVE modulesFromFiles(_, _, _, _, _, _)
modulesFromFiles(f, path, names, i, modDir, files) ==
    IF i > Len(names) THEN Listed(files)
    ELSE LET rd == Go("ReadLines", <<f, Go("Join", <<path, names[i]>>)>>) IN
         IF rd.err # "nil" THEN ListFailed(rd.err)
         ELSE LET r == Go("slurpModules", <<f, rd.lines, modDir>>) IN
              IF r.err # "nil" THEN r
              ELSE IF rd.scanErr # "nil" THEN ListFailed(rd.scanErr)
              ELSE modulesFromFiles(f, path, names, i + 1, modDir, Import(files, r.list))

LibModules == <<"/", "l", "i", "b", "/", "m", "o", "d", "u", "l", "e", "s">>
ModulesGlob == <<"m", "o", "d", "u", "l", "e", "s", ".", "*">>

ModulesList(f, modulesList, modulesListPath) ==
    LET kv == Go("GetKernelVersion", <<f>>) IN
    IF kv.err # "nil" THEN ListFailed(kv.err)
    ELSE LET modDir == Go("Join", <<LibModules, kv.version>>) IN
         IF ~Go("Exists", <<f, modDir>>).exists THEN Listed(NewFileList)
         ELSE LET probe == AddAllSame(NewFileList, Go("Glob", <<f, Go("Join", <<modDir, ModulesGlob>>)>>))
                  fromList == Go("modulesFromList", <<f, modulesList, 1, modDir, probe>>) IN
              IF fromList.err # "nil" THEN fromList
              ELSE LET d == Go("ReadDir", <<f, modulesListPath>>) IN
                   IF d.err # "nil" THEN fromList
                   ELSE Go("modulesFromFiles", <<f, modulesListPath, d.names, 1, modDir,
                                         fromList.list>>)

----------------------------------------------------------------------------
(* pkgs/deviceinfo *)

\* The zero value of DeviceInfo
NoDeviceInfo ==
    [InitfsCompression |-> <<>>, InitfsExtraCompression |-> <<>>,
     UbootBoardname |-> <<>>, GenerateSystemdBoot |-> <<>>,
     FormatVersion |-> <<>>, CreateInitfsExtra |-> FALSE]

LowerCase == <<"a", "b", "c", "d", "e", "f", "g", "h", "i", "j", "k", "l", "m", "n", "o", "p", "q", "r", "s", "t", "u", "v", "w", "x", "y", "z">>

UpperCase == <<"A", "B", "C", "D", "E", "F", "G", "H", "I", "J", "K", "L", "M", "N", "O", "P", "Q", "R", "S", "T", "U", "V", "W", "X", "Y", "Z">>

\* strings.ToUpper and strings.ToLower of one character
ToUpperChar(c) ==
    IF \E i \in 1..Len(LowerCase) : LowerCase[i] = c
        THEN UpperCase[CHOOSE i \in 1..Len(LowerCase) : LowerCase[i] = c]
    ELSE c

ToLowerChar(c) ==
    IF \E i \in 1..Len(UpperCase) : UpperCase[i] = c
        THEN LowerCase[CHOOSE i \in 1..Len(UpperCase) : UpperCase[i] = c]
    ELSE c

ToLower(x) == [i \in 1..Len(x) |-> ToLowerChar(x[i])]

\* nameToField: the parts between "_", without "deviceinfo" and empty
\* parts, each with its first character in upper case
RECURSIVE nameToFieldFrom(_, _)
nameToFieldFrom(parts, i) ==
    IF i > Len(parts) THEN <<>>
    ELSE IF parts[i] = <<"d", "e", "v", "i", "c", "e", "i", "n", "f", "o">> \/ Len(parts[i]) < 1
        THEN nameToFieldFrom(parts, i + 1)
    ELSE <<ToUpperChar(parts[i][1])>> \o Tail(parts[i]) \o nameToFieldFrom(parts, i + 1)

\* A nameToField that puts every character in upper case
nameToFieldAllUpper(name) ==
    LET field == Go("nameToFieldFrom", <<Split(name, "_"), 1>>) IN
    [i \in 1..Len(field) |-> ToUpperChar(field[i])]

nameToField(name) == Go("nameToFieldFrom", <<Split(name, "_"), 1>>)

\* reflect: the type of the field of that name, "invalid" if there is none
FieldType(field) ==
    IF field \in { <<"I", "n", "i", "t", "f", "s", "C", "o", "m", "p", "r", "e", "s", "s", "i", "o", "n">>, <<"I", "n", "i", "t", "f", "s", "E", "x", "t", "r", "a", "C", "o", "m", "p", "r", "e", "s", "s", "i", "o", "n">>, <<"U", "b", "o", "o", "t", "B", "o", "a", "r", "d", "n", "a", "m", "e">>,
                   <<"G", "e", "n", "e", "r", "a", "t", "e", "S", "y", "s", "t", "e", "m", "d", "B", "o", "o", "t">>, <<"F", "o", "r", "m", "a", "t", "V", "e", "r", "s", "i", "o", "n">> } THEN "string"
    ELSE IF field = <<"C", "r", "e", "a", "t", "e", "I", "n", "i", "t", "f", "s", "E", "x", "t", "r", "a">> THEN "bool"
    ELSE "invalid"

SetString(d, field, v) ==
    IF field = <<"I", "n", "i", "t", "f", "s", "C", "o", "m", "p", "r", "e", "s", "s", "i", "o", "n">> THEN [d EXCEPT !.InitfsCompression = v]
    ELSE IF field = <<"I", "n", "i", "t", "f", "s", "E", "x", "t", "r", "a", "C", "o", "m", "p", "r", "e", "s", "s", "i", "o", "n">> THEN [d EXCEPT !.InitfsExtraCompression = v]
    ELSE IF field = <<"U", "b", "o", "o", "t", "B", "o", "a", "r", "d", "n", "a", "m", "e">> THEN [d EXCEPT !.UbootBoardname = v]
    ELSE IF field = <<"G", "e", "n", "e", "r", "a", "t", "e", "S", "y", "s", "t", "e", "m", "d", "B", "o", "o", "t">> THEN [d EXCEPT !.GenerateSystemdBoot = v]
    ELSE [d EXCEPT !.FormatVersion = v]

\* strconv.ParseBool
ParseBool(v) ==
    IF v \in { <<"1">>, <<"t">>, <<"T">>, <<"T", "R", "U", "E">>, <<"t", "r", "u", "e">>, <<"T", "r", "u", "e">> } THEN [err |-> "nil", v |-> TRUE]
    ELSE IF v \in { <<"0">>, <<"f">>, <<"F">>, <<"F", "A", "L", "S", "E">>, <<"f", "a", "l", "s", "e">>, <<"F", "a", "l", "s", "e">> }
        THEN [err |-> "nil", v |-> FALSE]
    ELSE [err |-> "invalid syntax", v |-> FALSE]

\* shell.SourceFile on a file of assignments name=value: the variables it
\* leaves set, a later assignment replacing an earlier one
RECURSIVE sourceLines(_, _, _)
sourceLines(lines, i, vs) ==
    IF i > Len(lines) THEN [err |-> "nil", vars |-> vs]
    ELSE LET c == Go("Cut", <<lines[i], "=">>) IN
         IF ~c.found THEN [err |-> "parsing deviceinfo failed", vars |-> vs]
         ELSE sourceLines(lines, i + 1, Add(vs, c.before, c.after))

SourceFile(f, file) ==
    LET rd == Go("ReadLines", <<f, file>>) IN
    IF rd.err # "nil" THEN [err |-> rd.err, vars |-> NewFileList]
    ELSE Go("sourceLines", <<rd.lines, 1, NewFileList>>)

\* The loop of unmarshal over the variables, taken in the order given (the
\* order of a Go map iteration is not fixed)
RECURSIVE unmarshalVars(_, _, _, _)
unmarshalVars(d, vs, order, i) ==
    IF i > Len(order) THEN [d |-> d, err |-> "nil"]
    ELSE LET field == Go("nameToField", <<order[i]>>)
             type == FieldType(field) IN
         IF type = "invalid" THEN unmarshalVars(d, vs, order, i + 1)
         ELSE IF type = "string"
             THEN unmarshalVars(SetString(d, field, vs[order[i]]), vs, order, i + 1)
         ELSE LET b == ParseBool(vs[order[i]]) IN
              IF b.err # "nil"
                  THEN [d |-> d, err |-> "unsupported type for field, expected 'bool'"]
              ELSE unmarshalVars([d EXCEPT !.CreateInitfsExtra = b.v], vs, order, i + 1)

\* DeviceInfo.unmarshal
unmarshal(f, d, file, order) ==
    LET sf == Go("SourceFile", <<f, file>>) IN
    IF sf.err # "nil" THEN [d |-> d, err |-> sf.err]
    ELSE LET r == Go("unmarshalVars", <<d, sf.vars, order, 1>>) IN
         IF r.err # "nil" THEN r
         ELSE IF r.d.FormatVersion # <<"0">>
             THEN [d |-> r.d, err |-> "unsupported format version"]
         ELSE r

\* DeviceInfo.ReadDeviceinfo
ReadDeviceinfo(f, d, file, order) ==
    IF ~Go("Exists", <<f, file>>).exists THEN [d |-> d, err |-> "not found, required by mkinitfs"]
    ELSE Go("unmarshal", <<f, d, file, order>>)

\* The orders in which a map with these keys can be iterated
Orders(keys) ==
    { o \in [1..Cardinality(keys) -> keys] : \A i, j \in DOMAIN o : i # j => o[i] # o[j] }

\* The variables unmarshal iterates over when it reads file
VarsOf(f, file) ==
    IF ~Go("Exists", <<f, file>>).exists THEN {}
    ELSE DOMAIN Go("SourceFile", <<f, file>>).vars

----------------------------------------------------------------------------
(* archive.ExtractFormatLevel *)

\* ExtractFormatLevel that leaves lzma the level asked for
ExtractFormatLevelKeepsLzmaLevel(x) ==
    LET c == Go("Cut", <<x, ":">>)
        l == Go("ToLower", <<IF c.found THEN c.after ELSE <<"d", "e", "f", "a", "u", "l", "t">>>>)
        fmt == Go("ToLower", <<c.before>>)
        level == IF l \in { <<"b", "e", "s", "t">>, <<"d", "e", "f", "a", "u", "l", "t">>, <<"f", "a", "s", "t">> } THEN l ELSE <<"d", "e", "f", "a", "u", "l", "t">> IN
    IF fmt \in { <<"g", "z", "i", "p">>, <<"l", "z", "4">>, <<"n", "o", "n", "e">>, <<"z", "s", "t", "d">>, <<"l", "z", "m", "a">> }
        THEN [format |-> fmt, level |-> level]
    ELSE [format |-> <<"g", "z", "i", "p">>, level |-> level]

ExtractFormatLevel(x) ==
    LET c == Go("Cut", <<x, ":">>)
        l == Go("ToLower", <<IF c.found THEN c.after ELSE <<"d", "e", "f", "a", "u", "l", "t">>>>)
        fmt == Go("ToLower", <<c.before>>)
        level == IF l \in { <<"b", "e", "s", "t">>, <<"d", "e", "f", "a", "u", "l", "t">>, <<"f", "a", "s", "t">> } THEN l ELSE <<"d", "e", "f", "a", "u", "l", "t">> IN
    IF fmt = <<"g", "z", "i", "p">> \/ fmt = <<"l", "z", "4">> \/ fmt = <<"n", "o", "n", "e">> \/ fmt = <<"z", "s", "t", "d">>
        THEN [format |-> fmt, level |-> level]
    ELSE IF fmt = <<"l", "z", "m", "a">> THEN [format |-> fmt, level |-> <<"d", "e", "f", "a", "u", "l", "t">>]
    ELSE [format |-> <<"g", "z", "i", "p">>, level |-> level]

\* The output file of Archive.Write: data are the chunks written to it in
\* order, synced is how many of them it held when fd.Sync returned, mode is
\* "created" for the bits os.Create gives it
NoFile == [exists |-> FALSE, data |-> <<>>, synced |-> 0, mode |-> "none"]

\* The compressor is a writer of its own in front of the file (for
\* FormatNone it is the file; an unknown format is written with gzip)
Compresses(format) == format # <<"n", "o", "n", "e">>

\* compressor.Close(): a compressing writer writes what it still holds and
\* the end of its stream (gzip footer, xz index and footer, last lz4 block,
\* end of the zstd frame) to the file; the file itself writes nothing
CompressorClose(format, file) ==
    IF Compresses(format) THEN [file EXCEPT !.data = @ \o <<"end of stream">>] ELSE file

\* The deferred function of writeCompressed: e := compressor.Close(), and
\* err = e when e is an error and err is nil
DeferredClose(format, file, err, fail) ==
    [err |-> IF fail = "close" /\ err = "nil" THEN "close" ELSE err,
     panicked |-> FALSE,
     file |-> IF fail = "close" THEN file ELSE Go("CompressorClose", <<format, file>>)]

\* Archive.writeCompressed(path, mode): [err, panicked, file]; fail names
\* the call that returns an error, "none" when none does. When os.Create
\* fails the deferred function calls Close on the nil compressor. (The
\* constructors of the compressors do not fail for the levels chosen here.)
writeCompressed(format, mode, fail) ==
    IF fail = "create" THEN [err |-> "nil", panicked |-> TRUE, file |-> NoFile]
    ELSE LET created == [exists |-> TRUE, data |-> <<>>, synced |-> 0, mode |-> "created"]
             streamed == [created EXCEPT !.data = <<"stream">>]
             synced == [streamed EXCEPT !.synced = Len(streamed.data)] IN
         IF fail = "copy" THEN Go("DeferredClose", <<format, created, "copy", fail>>)
         ELSE IF fail = "sync" THEN Go("DeferredClose", <<format, streamed, "sync", fail>>)
         ELSE IF fail = "chmod" THEN Go("DeferredClose", <<format, synced, "chmod", fail>>)
         ELSE Go("DeferredClose", <<format, [synced EXCEPT !.mode = mode], "nil", fail>>)

\* Archive.Write(path, mode) once the items are in the archive: writeCpio,
\* cpioWriter.Close, writeCompressed and os.Chmod
Write(format, mode, fail) ==
    IF fail = "writeCpio" \/ fail = "cpioClose"
        THEN [err |-> fail, panicked |-> FALSE, file |-> NoFile]
    ELSE LET w == Go("writeCompressed", <<format, mode, fail>>) IN
         IF w.panicked \/ w.err # "nil" THEN w
         ELSE IF fail = "chmod again" THEN [w EXCEPT !.err = "chmod"]
         ELSE [w EXCEPT !.file.mode = mode]

----------------------------------------------------------------------------
(* internal/filelist/initramfs, and the features of main *)

Feature(kind, path, dest) == [kind |-> kind, path |-> path, dest |-> dest]

\* FileLister.List of one feature; modules.New of main has no list of
\* module names
FeatureList(f, ft) ==
    IF ft.kind = "hookdirs" THEN Go("HookDirsList", <<f, ft.path>>)
    ELSE IF ft.kind = "hookfiles" THEN Go("HookFilesList", <<f, ft.path>>)
    ELSE IF ft.kind = "hookscripts" THEN Go("HookScriptsList", <<f, ft.path, ft.dest>>)
    ELSE Go("ModulesList", <<f, <<>>, ft.path>>)

\* Initramfs.List
RECURSIVE InitramfsListFrom(_, _, _, _)
InitramfsListFrom(f, features, i, files) ==
    IF i > Len(features) THEN Listed(files)
    ELSE LET r == Go("FeatureList", <<f, features[i]>>) IN
         IF r.crashed \/ r.err # "nil" THEN r
         ELSE InitramfsListFrom(f, features, i + 1, Import(files, r.list))

InitramfsList(f, features) == Go("InitramfsListFrom", <<f, features, 1, NewFileList>>)

\* initfs and initfsExtra of main
InitfsFeatures ==
    << Feature("hookdirs", <<"/", "u", "s", "r", "/", "s", "h", "a", "r", "e", "/", "m", "k", "i", "n", "i", "t", "f", "s", "/", "d", "i", "r", "s">>, <<>>),
       Feature("hookdirs", <<"/", "e", "t", "c", "/", "m", "k", "i", "n", "i", "t", "f", "s", "/", "d", "i", "r", "s">>, <<>>),
       Feature("hookfiles", <<"/", "u", "s", "r", "/", "s", "h", "a", "r", "e", "/", "m", "k", "i", "n", "i", "t", "f", "s", "/", "f", "i", "l", "e", "s">>, <<>>),
       Feature("hookfiles", <<"/", "e", "t", "c", "/", "m", "k", "i", "n", "i", "t", "f", "s", "/", "f", "i", "l", "e", "s">>, <<>>),
       Feature("hookscripts", <<"/", "u", "s", "r", "/", "s", "h", "a", "r", "e", "/", "m", "k", "i", "n", "i", "t", "f", "s", "/", "h", "o", "o", "k", "s">>, <<"/", "h", "o", "o", "k", "s">>),
       Feature("hookscripts", <<"/", "e", "t", "c", "/", "m", "k", "i", "n", "i", "t", "f", "s", "/", "h", "o", "o", "k", "s">>, <<"/", "h", "o", "o", "k", "s">>),
       Feature("hookscripts", <<"/", "u", "s", "r", "/", "s", "h", "a", "r", "e", "/", "m", "k", "i", "n", "i", "t", "f", "s", "/", "h", "o", "o", "k", "s", "-", "c", "l", "e", "a", "n", "u", "p">>, <<"/", "h", "o", "o", "k", "s", "-", "c", "l", "e", "a", "n", "u", "p">>),
       Feature("hookscripts", <<"/", "e", "t", "c", "/", "m", "k", "i", "n", "i", "t", "f", "s", "/", "h", "o", "o", "k", "s", "-", "c", "l", "e", "a", "n", "u", "p">>, <<"/", "h", "o", "o", "k", "s", "-", "c", "l", "e", "a", "n", "u", "p">>),
       Feature("modules", <<"/", "u", "s", "r", "/", "s", "h", "a", "r", "e", "/", "m", "k", "i", "n", "i", "t", "f", "s", "/", "m", "o", "d", "u", "l", "e", "s">>, <<>>),
       Feature("modules", <<"/", "e", "t", "c", "/", "m", "k", "i", "n", "i", "t", "f", "s", "/", "m", "o", "d", "u", "l", "e", "s">>, <<>>) >>

InitfsExtraFeatures ==
    << Feature("hookfiles", <<"/", "u", "s", "r", "/", "s", "h", "a", "r", "e", "/", "m", "k", "i", "n", "i", "t", "f", "s", "/", "f", "i", "l", "e", "s", "-", "e", "x", "t", "r", "a">>, <<>>),
       Feature("hookfiles", <<"/", "e", "t", "c", "/", "m", "k", "i", "n", "i", "t", "f", "s", "/", "f", "i", "l", "e", "s", "-", "e", "x", "t", "r", "a">>, <<>>),
       Feature("hookscripts", <<"/", "u", "s", "r", "/", "s", "h", "a", "r", "e", "/", "m", "k", "i", "n", "i", "t", "f", "s", "/", "h", "o", "o", "k", "s", "-", "e", "x", "t", "r", "a">>, <<"/", "h", "o", "o", "k", "s", "-", "e", "x", "t", "r", "a">>),
       Feature("hookscripts", <<"/", "e", "t", "c", "/", "m", "k", "i", "n", "i", "t", "f", "s", "/", "h", "o", "o", "k", "s", "-", "e", "x", "t", "r", "a">>, <<"/", "h", "o", "o", "k", "s", "-", "e", "x", "t", "r", "a">>),
       Feature("modules", <<"/", "u", "s", "r", "/", "s", "h", "a", "r", "e", "/", "m", "k", "i", "n", "i", "t", "f", "s", "/", "m", "o", "d", "u", "l", "e", "s", "-", "e", "x", "t", "r", "a">>, <<>>),
       Feature("modules", <<"/", "e", "t", "c", "/", "m", "k", "i", "n", "i", "t", "f", "s", "/", "m", "o", "d", "u", "l", "e", "s", "-", "e", "x", "t", "r", "a">>, <<>>) >>

----------------------------------------------------------------------------
(* Archive.AddItemsExclude, Archive.writeCompressed, bootdeploy *)

\* The test of AddItemsExclude: the exclude list has the source, with the
\* same destination
Excluded(excl, source, dest) ==
    LET g == Get(excl, source) IN
    IF g.found THEN g.dest = dest ELSE FALSE

\* copy(srcFile, dstFile): os.Create of the destination (spaceLeft: the
\* work directory can take it), os.Open of the source and io.Copy
copy(f, srcFile, spaceLeft) ==
    IF ~spaceLeft THEN "ENOSPC"
    ELSE LET st == Go("Stat", <<f, srcFile>>) IN
         IF st.err # "nil" THEN st.err
         ELSE IF st.node.kind = "dir" THEN "EISDIR"
         ELSE "nil"

\* copyUbootFiles: the error it returns
RECURSIVE copyUbootEntries(_, _, _, _, _)
copyUbootEntries(f, srcDir, names, i, spaceLeft) ==
    IF i > Len(names) THEN "nil"
    ELSE LET e == Go("copy", <<f, Go("Join", <<srcDir, names[i]>>), spaceLeft>>) IN
         IF e # "nil" THEN e
         ELSE copyUbootEntries(f, srcDir, names, i + 1, spaceLeft)

copyUbootFiles(f, ubootBoardname, spaceLeft) ==
    IF ubootBoardname = <<>> THEN "nil"
    ELSE LET srcDir == Go("Join", <<<<"/", "u", "s", "r", "/", "s", "h", "a", "r", "e", "/", "u", "-", "b", "o", "o", "t">>, ubootBoardname>>)
             d == Go("ReadDir", <<f, srcDir>>) IN
         IF d.err # "nil" THEN d.err
         ELSE Go("copyUbootEntries", <<f, srcDir, d.names, 1, spaceLeft>>)

\* errors.Is(err, os.ErrNotExist)
IsNotExist(err) == err = "ENOENT"

----------------------------------------------------------------------------
(* Operator application *)

Go(op, a) ==
    CASE op = "Compare" -> Compare(a[1], a[2])
      [] op = "TrimPrefix" -> TrimPrefix(a[1], a[2])
      [] op = "Cut" -> Cut(a[1], a[2])
      [] op = "Clean" -> Clean(a[1])
      [] op = "Join" -> Join(a[1], a[2])
      [] op = "Dir" -> Dir(a[1])
      [] op = "Base" -> Base(a[1])
      [] op = "Link" -> Link(a[1])
      [] op = "Elf" -> Elf(a[1])
      [] op = "Text" -> Text(a[1])
      [] op = "Resolve" -> Resolve(a[1], a[2], a[3])
      [] op = "Lstat" -> Lstat(a[1], a[2])
      [] op = "Stat" -> Stat(a[1], a[2])
      [] op = "Readlink" -> Readlink(a[1], a[2])
      [] op = "HasMergedUsrIfAnySymlink" -> HasMergedUsrIfAnySymlink(a[1])
      [] op = "HasMergedUsr" -> HasMergedUsr(a[1])
      [] op = "MergeUsr" -> MergeUsr(a[1])
      [] op = "RelativeSymlinkTargetToDir" -> RelativeSymlinkTargetToDir(a[1], a[2], a[3])
      [] op = "SearchLoop" -> SearchLoop(a[1], a[2], a[3], a[4])
      [] op = "Search" -> Search(a[1], a[2])
      [] op = "addKeepsDuplicates" -> addKeepsDuplicates(a[1], a[2])
      [] op = "add" -> add(a[1], a[2])
      [] op = "addDirLoop" -> addDirLoop(a[1], a[2], a[3])
      [] op = "addDir" -> addDir(a[1], a[2])
      [] op = "addFile" -> addFile(a[1], a[2], a[3], a[4])
      [] op = "addSymlinkAt" -> addSymlinkAt(a[1], a[2], a[3], a[4], a[5])
      [] op = "AddItemAt" -> AddItemAt(a[1], a[2], a[3], a[4], a[5])
      [] op = "AddItem" -> AddItem(a[1], a[2], a[3], a[4])
      [] op = "addSymlink" -> addSymlink(a[1], a[2], a[3], a[4])
      [] op = "copyToArchive" -> copyToArchive(a[1], a[2])
      [] op = "writeCpioLinks" -> writeCpioLinks(a[1], a[2])
      [] op = "MinStr" -> MinStr(a[1])
      [] op = "SortStrings" -> SortStrings(a[1])
      [] op = "DirNames" -> DirNames(a[1], a[2])
      [] op = "globDir" -> globDir(a[1], a[2], a[3])
      [] op = "Glob" -> Glob(a[1], a[2])
      [] op = "Walk" -> Walk(a[1], a[2])
      [] op = "ReadDir" -> ReadDir(a[1], a[2])
      [] op = "ReadLines" -> ReadLines(a[1], a[2])
      [] op = "ElfOpen" -> ElfOpen(a[1], a[2])
      [] op = "ImportedLibraries" -> ImportedLibraries(a[1], a[2])
      [] op = "Libdirs" -> Libdirs(a[1])
      [] op = "FindLibFrom" -> FindLibFrom(a[1], a[2], a[3], a[4])
      [] op = "FindLib" -> FindLib(a[1], a[2])
      [] op = "getDepsLibsByValue" -> getDepsLibsByValue(a[1], a[2], a[3], a[4], a[5], a[6], a[7])
      [] op = "getDepsLibs" -> getDepsLibs(a[1], a[2], a[3], a[4], a[5], a[6], a[7])
      [] op = "getDeps" -> getDeps(a[1], a[2], a[3], a[4])
      [] op = "getBinaryDeps" -> getBinaryDeps(a[1], a[2])
      [] op = "getFileEach" -> getFileEach(a[1], a[2], a[3], a[4], a[5], a[6])
      [] op = "getFileNormalizedAt" -> getFileNormalizedAt(a[1], a[2], a[3], a[4])
      [] op = "getFileAt" -> getFileAt(a[1], a[2], a[3], a[4])
      [] op = "getFile" -> getFile(a[1], a[2], a[3])
      [] op = "getFileNormalized" -> getFileNormalized(a[1], a[2], a[3])
      [] op = "GetFilesFrom" -> GetFilesFrom(a[1], a[2], a[3], a[4], a[5])
      [] op = "GetFilesKeepsGathered" -> GetFilesKeepsGathered(a[1], a[2], a[3])
      [] op = "GetFiles" -> GetFiles(a[1], a[2], a[3])
      [] op = "hookDirsFiles" -> hookDirsFiles(a[1], a[2], a[3], a[4], a[5])
      [] op = "HookDirsList" -> HookDirsList(a[1], a[2])
      [] op = "hookFilesLines" -> hookFilesLines(a[1], a[2], a[3], a[4])
      [] op = "hookFilesFiles" -> hookFilesFiles(a[1], a[2], a[3], a[4], a[5])
      [] op = "HookFilesList" -> HookFilesList(a[1], a[2])
      [] op = "AddGlobbed" -> AddGlobbed(a[1], a[2], a[3], a[4])
      [] op = "slurpFilesFrom" -> slurpFilesFrom(a[1], a[2], a[3], a[4])
      [] op = "slurpFiles" -> slurpFiles(a[1], a[2])
      [] op = "hookScriptsFiles" -> hookScriptsFiles(a[1], a[2], a[3], a[4], a[5])
      [] op = "HookScriptsList" -> HookScriptsList(a[1], a[2], a[3])
      [] op = "GetKernelVersion" -> GetKernelVersion(a[1])
      [] op = "Exists" -> Exists(a[1], a[2])
      [] op = "Fields" -> Fields(a[1])
      [] op = "TrimSuffix" -> TrimSuffix(a[1], a[2])
      [] op = "stripExts" -> stripExts(a[1])
      [] op = "Ext" -> Ext(a[1])
      [] op = "ModNameRe" -> ModNameRe(a[1], a[2])
      [] op = "ReMatch" -> ReMatch(a[1], a[2])
      [] op = "getModuleDepsFrom" -> getModuleDepsFrom(a[1], a[2], a[3])
      [] op = "getModuleDeps" -> getModuleDeps(a[1], a[2])
      [] op = "getModuleCheck" -> getModuleCheck(a[1], a[2], a[3], a[4], a[5])
      [] op = "getModuleSkipsMissing" -> getModuleSkipsMissing(a[1], a[2], a[3])
      [] op = "getModule" -> getModule(a[1], a[2], a[3])
      [] op = "getModulesInDir" -> getModulesInDir(a[1], a[2])
      [] op = "SplitPath" -> SplitPath(a[1])
      [] op = "modulesInDirs" -> modulesInDirs(a[1], a[2], a[3], a[4])
      [] op = "slurpModulesFrom" -> slurpModulesFrom(a[1], a[2], a[3], a[4], a[5])
      [] op = "slurpModules" -> slurpModules(a[1], a[2], a[3])
      [] op = "modulesFromList" -> modulesFromList(a[1], a[2], a[3], a[4], a[5])
      [] op = "modulesFromFiles" -> modulesFromFiles(a[1], a[2], a[3], a[4], a[5], a[6])
      [] op = "ModulesList" -> ModulesList(a[1], a[2], a[3])
      [] op = "ToLower" -> ToLower(a[1])
      [] op = "nameToFieldFrom" -> nameToFieldFrom(a[1], a[2])
      [] op = "nameToFieldAllUpper" -> nameToFieldAllUpper(a[1])
      [] op = "nameToField" -> nameToField(a[1])
      [] op = "sourceLines" -> sourceLines(a[1], a[2], a[3])
      [] op = "SourceFile" -> SourceFile(a[1], a[2])
      [] op = "unmarshalVars" -> unmarshalVars(a[1], a[2], a[3], a[4])
      [] op = "unmarshal" -> unmarshal(a[1], a[2], a[3], a[4])
      [] op = "ReadDeviceinfo" -> ReadDeviceinfo(a[1], a[2], a[3], a[4])
      [] op = "VarsOf" -> VarsOf(a[1], a[2])
      [] op = "ExtractFormatLevelKeepsLzmaLevel" -> ExtractFormatLevelKeepsLzmaLevel(a[1])
      [] op = "ExtractFormatLevel" -> ExtractFormatLevel(a[1])
      [] op = "CompressorClose" -> CompressorClose(a[1], a[2])
      [] op = "DeferredClose" -> DeferredClose(a[1], a[2], a[3], a[4])
      [] op = "writeCompressed" -> writeCompressed(a[1], a[2], a[3])
      [] op = "Write" -> Write(a[1], a[2], a[3])
      [] op = "FeatureList" -> FeatureList(a[1], a[2])
      [] op = "InitramfsListFrom" -> InitramfsListFrom(a[1], a[2], a[3], a[4])
      [] op = "InitramfsList" -> InitramfsList(a[1], a[2])
      [] op = "Excluded" -> Excluded(a[1], a[2], a[3])
      [] op = "copy" -> copy(a[1], a[2], a[3])
      [] op = "copyUbootEntries" -> copyUbootEntries(a[1], a[2], a[3], a[4], a[5])
      [] op = "copyUbootFiles" -> copyUbootFiles(a[1], a[2], a[3])
----------------------------------------------------------------------------
(* Hosts *)

Bin == <<"/", "b", "i", "n">>
Sbin == <<"/", "s", "b", "i", "n">>
Lib == <<"/", "l", "i", "b">>
Usr == <<"/", "u", "s", "r">>
UsrBin == <<"/", "u", "s", "r", "/", "b", "i", "n">>
UsrLib == <<"/", "u", "s", "r", "/", "l", "i", "b">>

\* Not merged-usr: /bin and /lib are directories
PlainRoot == (Bin :> Dirn) @@ (Lib :> Dirn) @@ (Usr :> Dirn) @@ (UsrLib :> Dirn)

\* Merged-usr: /bin, /sbin and /lib are symlinks into /usr
MergedRoot ==
    (Bin :> Go("Link", <<<<"u", "s", "r", "/", "b", "i", "n">>>>))
    @@ (Sbin :> Go("Link", <<<<"u", "s", "r", "/", "b", "i", "n">>>>))
    @@ (Lib :> Go("Link", <<<<"u", "s", "r", "/", "l", "i", "b">>>>))
    @@ (Usr :> Dirn) @@ (UsrBin :> Dirn) @@ (UsrLib :> Dirn)

----------------------------------------------------------------------------
(* archiveItems under concurrent add, and the iteration of writeCpio *)

NumCallers == 2

Callers == 1..NumCallers

\* The items the callers add: four names whose byte order differs from
\* their order by length ("a" < "a/b" < "ab" < "b"), each from two sources
\* of which /s2 cannot be opened.
AddNames == { <<"a">>, <<"a", "/", "b">>, <<"a", "b">>, <<"b">> }

AddSources == { <<"/", "s", "1">>, <<"/", "s", "2">> }

AddItems0 == { Item(n, s, "file", <<>>) : n \in AddNames, s \in AddSources }

ItemsHosts ==
    { PlainRoot @@ (<<"/", "s", "1">> :> File),
      MergedRoot @@ (<<"/", "s", "1">> :> File) }

NoItem == Item(<<>>, <<>>, "dir", <<>>)

\* No FileList is being archived
\* No Modules provider
NoModules == [modulesList |-> <<>>, modulesListPath |-> <<>>]

\* main has not been started
\* No function called
NoCall == [op |-> "none", args |-> <<>>, result |-> <<>>]

\* No FileList in concurrent use
NoFileList ==
    [m |-> NewFileList, w |-> 0, readers |-> {}, writing |-> {},
     add |-> <<>>, get |-> [pc |-> "off", src |-> <<>>, dest |-> <<>>, found |-> FALSE],
     iter |-> [pc |-> "off", ranged |-> {}], snapshot |-> NewFileList,
     ch |-> <<>>, closed |-> FALSE, received |-> <<>>, torn |-> FALSE,
     consumer |-> "receiving", importing |-> FALSE]

MainIdle ==
    /\ pc = "off"
    /\ devinfo = NoDeviceInfo
    /\ deverr = [usr |-> "nil", etc |-> "nil"]
    /\ retCode = 0
    /\ exit = [done |-> FALSE, code |-> 0]
    /\ workDir = "none"
    /\ excludeList = NewFileList
    /\ archives = NewFileList
    /\ failed = {}
    /\ disableBootDeploy = FALSE

AddIdle ==
    /\ flist = NewFileList
    /\ history = <<>>
    /\ pending = {}
    /\ stage = "off"

Names(its) == { its[i].name : i \in 1..Len(its) }

Range(its) == { its[i] : i \in 1..Len(its) }

InitItems ==
    /\ fs \in ItemsHosts
    /\ items = <<>>
    /\ mu = [w |-> {}, r |-> 0]
    /\ callers = [c \in Callers |-> [pc |-> "idle", item |-> NoItem]]
    /\ firstAdds = {}
    /\ dropped = FALSE
    /\ iter = [pc |-> "off", idx |-> 0]
    /\ written = <<>>
    /\ AddIdle
    /\ MainIdle
    /\ modules = NoModules
    /\ filelist = NoFileList
    /\ call = NoCall

\* a.Lock() of archiveItems.add
AddLock(c, x) ==
    /\ callers[c].pc = "idle"
    /\ mu.w = {} /\ mu.r = 0
    /\ mu' = [mu EXCEPT !.w = {c}]
    /\ callers' = [callers EXCEPT ![c] = [pc |-> "locked", item |-> x]]
    /\ firstAdds' = IF \E y \in firstAdds : y.name = x.name THEN firstAdds
                    ELSE firstAdds \cup {x}
    /\ UNCHANGED <<restVars, mainVars, fs, items, dropped, iter, written, addVars>>

\* the body of archiveItems.add and the deferred a.Unlock()
AddBody(c) ==
    /\ callers[c].pc = "locked"
    /\ items' = Go("add", <<items, callers[c].item>>)
    /\ mu' = [mu EXCEPT !.w = {}]
    /\ callers' = [callers EXCEPT ![c] = [pc |-> "idle", item |-> NoItem]]
    /\ dropped' = (dropped \/ callers[c].item.name \in Names(items))
    /\ UNCHANGED <<restVars, mainVars, fs, firstAdds, iter, written, addVars>>

\* writeCpio up to the call of IterItems, which starts the goroutine
WriteCpioBegin ==
    /\ iter.pc = "off"
    /\ mu.w = {} /\ mu.r = 0
    /\ LET r == Go("writeCpioLinks", <<fs, items>>) IN
       /\ items' = r.items
       /\ firstAdds' = firstAdds \cup
              { x \in Range(r.items) : \A y \in firstAdds : y.name # x.name }
    /\ iter' = [pc |-> "spawned", idx |-> 0]
    /\ UNCHANGED <<restVars, mainVars, fs, mu, callers, dropped, written, addVars>>

\* a.RLock() in the goroutine of archiveItems.IterItems
IterRLock ==
    /\ iter.pc = "spawned"
    /\ mu.w = {}
    /\ mu' = [mu EXCEPT !.r = mu.r + 1]
    /\ iter' = [iter EXCEPT !.pc = "iter"]
    /\ UNCHANGED <<restVars, mainVars, fs, items, callers, firstAdds, dropped, written, addVars>>

\* ch <- item, received by the loop of writeCpio, which copies it
IterSend ==
    /\ iter.pc = "iter"
    /\ iter.idx < Len(items)
    /\ LET item == items[iter.idx + 1] IN
       IF Go("copyToArchive", <<fs, item>>) = "nil"
           THEN /\ written' = Append(written, item)
                /\ iter' = [iter EXCEPT !.idx = iter.idx + 1]
       ELSE \* writeCpio returns the error; the goroutine stays in its next send
            /\ written' = Append(written, item)
            /\ iter' = [pc |-> "abandoned", idx |-> iter.idx + 1]
    /\ UNCHANGED <<restVars, mainVars, fs, items, mu, callers, firstAdds, dropped, addVars>>

\* close(ch) and the deferred a.RUnlock()
IterClose ==
    /\ iter.pc = "iter"
    /\ iter.idx = Len(items)
    /\ mu' = [mu EXCEPT !.r = mu.r - 1]
    /\ iter' = [iter EXCEPT !.pc = "closed"]
    /\ UNCHANGED <<restVars, mainVars, fs, items, callers, firstAdds, dropped, written, addVars>>

NextItems ==
    \/ \E c \in Callers, x \in AddItems0 : AddLock(c, x)
    \/ \E c \in Callers : AddBody(c)
    \/ WriteCpioBegin
    \/ IterRLock
    \/ IterSend
    \/ IterClose

SpecItems == InitItems /\ [][NextItems]_vars

\* C1: whatever the interleaving of the callers of archiveItems.add, the
\* items are in strictly ascending order of name, every item is the first
\* one added under its name, once no add is in progress there is exactly
\* one item per name added, and writeCpio emits the items in that order.
C1_SortedFirstAddWins ==
    /\ \A i \in 1..(Len(items) - 1) : Go("Compare", <<items[i].name, items[i + 1].name>>) < 0
    /\ Range(items) \subseteq firstAdds
    /\ (mu.w = {} => Range(items) = firstAdds)
    /\ (iter.pc = "iter" => written = SubSeq(items, 1, iter.idx))
    /\ \A i \in 1..(Len(written) - 1) :
           Go("Compare", <<written[i].name, written[i + 1].name>>) < 0

\* writeCpio has emitted every item of a collection of at least three,
\* after an add of a name that was present already
C1_Witness ==
    /\ dropped
    /\ iter.pc = "closed"
    /\ Len(written) >= 3
    /\ written = items

----------------------------------------------------------------------------
(* A FileList filled by Add and Import, archived by AddItems and written *)

MaxAdds == 3

\* The host without merged-usr: two files, symlinks with an absolute
\* target, a target in their own directory and a target above it, and a
\* symlink to a path that cannot be examined
PlainHost ==
    PlainRoot
    @@ (<<"/", "a">> :> File) @@ (<<"/", "b">> :> File)
    @@ (<<"/", "d">> :> Dirn) @@ (<<"/", "d", "/", "t">> :> File)
    @@ (<<"/", "l">> :> Go("Link", <<<<"/", "a">>>>))
    @@ (<<"/", "d", "/", "l">> :> Go("Link", <<<<"t">>>>))
    @@ (<<"/", "d", "/", "u">> :> Go("Link", <<<<".", ".", "/", "a">>>>))
    @@ (<<"/", "p">> :> Denied)
    @@ (<<"/", "k">> :> Go("Link", <<<<"/", "p">>>>))

\* The merged-usr host: a binary reached through /bin, and a symlink whose
\* target names it through /bin
MergedHost ==
    MergedRoot
    @@ (<<"/", "u", "s", "r", "/", "b", "i", "n", "/", "x">> :> File)
    @@ (<<"/", "u", "s", "r", "/", "b", "i", "n", "/", "y">> :> Go("Link", <<<<"/", "b", "i", "n", "/", "x">>>>))

AddHosts == { PlainHost, MergedHost }

\* The (source, destination) pairs the callers record
AddPairs(f) ==
    IF Go("HasMergedUsr", <<f>>)
        THEN { <<<<"/", "b", "i", "n", "/", "x">>, <<"/", "b", "i", "n", "/", "x">>>>, <<<<"/", "b", "i", "n", "/", "x">>, <<"/", "s", "b", "i", "n", "/", "z">>>>,
               <<<<"/", "u", "s", "r", "/", "b", "i", "n", "/", "y">>, <<"/", "u", "s", "r", "/", "b", "i", "n", "/", "y">>>>, <<<<"/", "u", "s", "r", "/", "b", "i", "n", "/", "y">>, <<"/", "l", "i", "b", "/", "y">>>> }
    ELSE { <<<<"/", "a">>, <<"/", "a">>>>, <<<<"/", "a">>, <<"/", "x">>>>, <<<<"/", "b">>, <<"/", "x">>>>,
           <<<<"/", "l">>, <<"/", "l">>>>, <<<<"/", "d", "/", "l">>, <<"/", "e", "/", "l">>>>, <<<<"/", "d", "/", "u">>, <<"/", "d", "/", "u">>>>,
           <<<<"/", "k">>, <<"/", "k">>>>, <<<<"/", "p">>, <<"/", "p">>>> }

\* The FileLists the callers import
ImportLists(f) ==
    IF Go("HasMergedUsr", <<f>>)
        THEN { Add(Add(NewFileList, <<"/", "b", "i", "n", "/", "x">>, <<"/", "s", "b", "i", "n", "/", "z">>), <<"/", "u", "s", "r", "/", "b", "i", "n", "/", "y">>, <<"/", "u", "s", "r", "/", "b", "i", "n", "/", "y">>) }
    ELSE { Add(Add(NewFileList, <<"/", "a">>, <<"/", "x">>), <<"/", "b">>, <<"/", "x">>) }

\* The pairs of a FileList, as a sequence in the order of their sources
PairsOf(m) == LET ss == Go("SortStrings", <<DOMAIN m>>) IN [i \in 1..Len(ss) |-> <<ss[i], m[ss[i]]>>]

InitAdd ==
    /\ fs \in AddHosts
    /\ items = <<>>
    /\ written = <<>>
    /\ mu = [w |-> {}, r |-> 0]
    /\ callers = [c \in Callers |-> [pc |-> "idle", item |-> NoItem]]
    /\ firstAdds = {}
    /\ dropped = FALSE
    /\ iter = [pc |-> "off", idx |-> 0]
    /\ flist = NewFileList
    /\ history = <<>>
    /\ pending = {}
    /\ stage = "build"
    /\ MainIdle
    /\ modules = NoModules
    /\ filelist = NoFileList
    /\ call = NoCall

\* FileList.Add(src, dest)
FlAdd(src, dest) ==
    /\ stage = "build"
    /\ Len(history) < MaxAdds
    /\ flist' = Add(flist, src, dest)
    /\ history' = Append(history, <<src, dest>>)
    /\ UNCHANGED <<restVars, mainVars, fs, items, written, itemsVars, pending, stage>>

\* FileList.Import(src)
FlImport(src) ==
    /\ stage = "build"
    /\ Len(history) + Cardinality(DOMAIN src) <= MaxAdds
    /\ flist' = Import(flist, src)
    /\ history' = history \o PairsOf(src)
    /\ UNCHANGED <<restVars, mainVars, fs, items, written, itemsVars, pending, stage>>

\* Archive.AddItems up to its loop: flister.List() and list.IterItems()
AddItemsBegin ==
    /\ stage = "build"
    /\ stage' = "adding"
    /\ pending' = DOMAIN flist
    /\ UNCHANGED <<restVars, mainVars, fs, items, written, itemsVars, flist, history>>

\* One turn of the loop of AddItems: IterItems delivers any entry of the
\* map it has not delivered yet, and AddItem adds it
Deliver(src) ==
    /\ stage = "adding"
    /\ src \in pending
    /\ LET r == Go("AddItem", <<fs, items, src, flist[src]>>) IN
       /\ items' = r.items
       /\ IF r.crashed THEN stage' = "crashed" /\ pending' = {}
          ELSE IF r.err # "nil" THEN stage' = "failed" /\ pending' = {}
          ELSE stage' = stage /\ pending' = pending \ {src}
    /\ UNCHANGED <<restVars, mainVars, fs, written, itemsVars, flist, history>>

\* AddItems returns nil when the channel is closed
AddItemsEnd ==
    /\ stage = "adding"
    /\ pending = {}
    /\ stage' = "added"
    /\ UNCHANGED <<restVars, mainVars, fs, items, written, itemsVars, flist, history, pending>>

\* the items writeCpio copies before it returns: all, or those up to and
\* including the first it fails to copy
RECURSIVE copied(_, _, _)
copied(f, its, i) ==
    IF i > Len(its) THEN [items |-> its, err |-> "nil"]
    ELSE LET e == Go("copyToArchive", <<f, its[i]>>) IN
         IF e # "nil" THEN [items |-> SubSeq(its, 1, i), err |-> e]
         ELSE copied(f, its, i + 1)

\* Archive.Write on a destination that can be created and written
WriteAdded ==
    /\ stage = "added"
    /\ LET l == Go("writeCpioLinks", <<fs, items>>)
           c == copied(fs, l.items, 1) IN
       /\ items' = l.items
       /\ written' = c.items
       /\ stage' = IF l.crashed THEN "crashed"
                   ELSE IF c.err # "nil" THEN "failed" ELSE "written"
    /\ UNCHANGED <<restVars, mainVars, fs, itemsVars, flist, history, pending>>

NextAdd ==
    \/ \E p \in AddPairs(fs) : FlAdd(p[1], p[2])
    \/ \E l \in ImportLists(fs) : FlImport(l)
    \/ AddItemsBegin
    \/ \E src \in pending : Deliver(src)
    \/ AddItemsEnd
    \/ WriteAdded

SpecAdd == InitAdd /\ [][NextAdd]_vars

\* The name and the source path AddItem gives an entry of the FileList
ArchName(f, dest) == Go("TrimPrefix", <<IF Go("HasMergedUsr", <<f>>) THEN Go("MergeUsr", <<dest>>) ELSE dest, <<"/">>>>)

ArchSource(f, src) == IF Go("HasMergedUsr", <<f>>) THEN Go("MergeUsr", <<src>>) ELSE src

\* The names AddItem(src, dest) puts into an empty archive
NamesOf(f, src, dest) == Names(Go("AddItem", <<f, <<>>, src, dest>>).items)

\* AddItems with IterItems delivering in the order of the sources
RECURSIVE AddInOrder(_, _, _, _)
AddInOrder(f, its, pairs, i) ==
    IF i > Len(pairs) THEN its
    ELSE AddInOrder(f, Go("AddItem", <<f, its, pairs[i][1], pairs[i][2]>>).items, pairs, i + 1)

\* what Write emits after that
InOrder(f, m) ==
    copied(f, Go("writeCpioLinks", <<f, AddInOrder(f, <<>>, PairsOf(m), 1)>>).items, 1).items

\* C2: whatever the order in which IterItems delivers the entries, AddItems
\* followed by Write emits the sequence of items (name, source path, mode,
\* link target) that the delivery in the order of the sources emits.
C2_OutputIndependentOfDeliveryOrder ==
    stage = "written" => written = InOrder(fs, flist)

\* The sources recorded, the destination recorded last for each, and the
\* (source, destination) pairs replaced by a later destination
Sources(h) == { h[i][1] : i \in 1..Len(h) }

LastDest(h, src) ==
    h[CHOOSE i \in 1..Len(h) :
          h[i][1] = src /\ \A j \in (i + 1)..Len(h) : h[j][1] # src][2]

Replaced(h) == { p \in Range(h) : p[2] # LastDest(h, p[1]) }

ItemOf(its, name) == CHOOSE it \in Range(its) : it.name = name

Denoted(f, it) ==
    ArchName(f, IF IsAbs(it.linkname) THEN Go("Clean", <<it.linkname>>)
                ELSE Go("Join", <<Go("Join", <<<<"/">>, Go("Dir", <<it.name>>)>>), it.linkname>>))

\* C5: after any sequence of AddItem calls, what the link name of every
\* symlink item denotes is the name of an item of the same archive.
C5_SymlinkTargetsArchived ==
    \A it \in Range(items) : it.mode = "symlink" => Denoted(fs, it) \in Names(items)

----------------------------------------------------------------------------
(* main: deviceinfo, the kernel version, the work directory, the two   *)
(* archives and boot-deploy                                            *)

UsrDeviceinfo == <<"/", "u", "s", "r", "/", "s", "h", "a", "r", "e", "/", "d", "e", "v", "i", "c", "e", "i", "n", "f", "o", "/", "d", "e", "v", "i", "c", "e", "i", "n", "f", "o">>

EtcDeviceinfo == <<"/", "e", "t", "c", "/", "d", "e", "v", "i", "c", "e", "i", "n", "f", "o">>

NoFiles == [p \in {} |-> Dirn]

\* The directories above a path
Ancestors(p) == { SubSeq(p, 1, i - 1) : i \in { j \in 2..Len(p) : p[j] = "/" } }

\* The host with every directory that its paths lie in
WithDirs(f) == f @@ [p \in UNION { Ancestors(q) : q \in DOMAIN f } |-> Dirn]

\* /usr/share/deviceinfo/deviceinfo: absent, or a file with a format
\* version, a compression, a u-boot board and a key mkinitfs does not read
UsrInfos ==
    { NoFiles,
      UsrDeviceinfo :> Go("Text", <<<< <<"d", "e", "v", "i", "c", "e", "i", "n", "f", "o", "_", "f", "o", "r", "m", "a", "t", "_", "v", "e", "r", "s", "i", "o", "n", "=", "0">>,
                               <<"d", "e", "v", "i", "c", "e", "i", "n", "f", "o", "_", "i", "n", "i", "t", "f", "s", "_", "c", "o", "m", "p", "r", "e", "s", "s", "i", "o", "n", "=", "g", "z", "i", "p">>,
                               <<"d", "e", "v", "i", "c", "e", "i", "n", "f", "o", "_", "u", "b", "o", "o", "t", "_", "b", "o", "a", "r", "d", "n", "a", "m", "e", "=", "b">>,
                               <<"d", "e", "v", "i", "c", "e", "i", "n", "f", "o", "_", "c", "o", "d", "e", "n", "a", "m", "e", "=", "x">> >>>>) }

\* /etc/deviceinfo: absent, or a file that sets the compression again and
\* asks for initramfs-extra (with a boolean, or with a word that is none), or
\* a file with a format version of its own
EtcInfos ==
    { NoFiles,
      EtcDeviceinfo :> Go("Text", <<<< <<"d", "e", "v", "i", "c", "e", "i", "n", "f", "o", "_", "i", "n", "i", "t", "f", "s", "_", "c", "o", "m", "p", "r", "e", "s", "s", "i", "o", "n", "=", "z", "s", "t", "d", ":", "f", "a", "s", "t">>,
                               <<"d", "e", "v", "i", "c", "e", "i", "n", "f", "o", "_", "c", "r", "e", "a", "t", "e", "_", "i", "n", "i", "t", "f", "s", "_", "e", "x", "t", "r", "a", "=", "t", "r", "u", "e">> >>>>),
      EtcDeviceinfo :> Go("Text", <<<< <<"d", "e", "v", "i", "c", "e", "i", "n", "f", "o", "_", "i", "n", "i", "t", "f", "s", "_", "c", "o", "m", "p", "r", "e", "s", "s", "i", "o", "n", "=", "z", "s", "t", "d", ":", "f", "a", "s", "t">>,
                               <<"d", "e", "v", "i", "c", "e", "i", "n", "f", "o", "_", "c", "r", "e", "a", "t", "e", "_", "i", "n", "i", "t", "f", "s", "_", "e", "x", "t", "r", "a", "=", "m", "a", "y", "b", "e">> >>>>),
      EtcDeviceinfo :> Go("Text", <<<< <<"d", "e", "v", "i", "c", "e", "i", "n", "f", "o", "_", "f", "o", "r", "m", "a", "t", "_", "v", "e", "r", "s", "i", "o", "n", "=", "0">>,
                               <<"d", "e", "v", "i", "c", "e", "i", "n", "f", "o", "_", "c", "r", "e", "a", "t", "e", "_", "i", "n", "i", "t", "f", "s", "_", "e", "x", "t", "r", "a", "=", "t", "r", "u", "e">> >>>>),
      EtcDeviceinfo :> Go("Text", <<<< <<"d", "e", "v", "i", "c", "e", "i", "n", "f", "o", "_", "f", "o", "r", "m", "a", "t", "_", "v", "e", "r", "s", "i", "o", "n", "=", "1">> >>>>) }

KernelRelease == <<"/", "u", "s", "r", "/", "s", "h", "a", "r", "e", "/", "k", "e", "r", "n", "e", "l", "/", "k", "/", "k", "e", "r", "n", "e", "l", ".", "r", "e", "l", "e", "a", "s", "e">> :> Go("Text", <<<< <<"6", ".", "1">> >>>>)

FilesDirs ==
    (<<"/", "u", "s", "r", "/", "s", "h", "a", "r", "e", "/", "m", "k", "i", "n", "i", "t", "f", "s", "/", "f", "i", "l", "e", "s">> :> Dirn) @@ (<<"/", "e", "t", "c", "/", "m", "k", "i", "n", "i", "t", "f", "s", "/", "f", "i", "l", "e", "s">> :> Dirn)
    @@ (<<"/", "u", "s", "r", "/", "s", "h", "a", "r", "e", "/", "m", "k", "i", "n", "i", "t", "f", "s", "/", "f", "i", "l", "e", "s", "-", "e", "x", "t", "r", "a">> :> Dirn)

\* A binary with a library that needs another, listed for the initramfs
Binary ==
    (<<"/", "u", "s", "r", "/", "b", "i", "n", "/", "e">> :> Go("Elf", <<<< <<"l", "i", "b", "a">> >>>>))
    @@ (<<"/", "u", "s", "r", "/", "l", "i", "b", "/", "l", "i", "b", "a">> :> Go("Elf", <<<< <<"l", "i", "b", "b">> >>>>))
    @@ (<<"/", "u", "s", "r", "/", "l", "i", "b", "/", "l", "i", "b", "b">> :> Go("Elf", <<<<>>>>))
    @@ (<<"/", "u", "s", "r", "/", "s", "h", "a", "r", "e", "/", "m", "k", "i", "n", "i", "t", "f", "s", "/", "f", "i", "l", "e", "s", "/", "f">> :> Go("Text", <<<< <<"/", "u", "s", "r", "/", "b", "i", "n", "/", "e">> >>>>))

\* What the hosts differ in, besides deviceinfo
Scenes ==
    { \* the binary, and u-boot files for the board
      KernelRelease @@ FilesDirs @@ (<<"/", "e", "t", "c", "/", "m", "k", "i", "n", "i", "t", "f", "s", "/", "f", "i", "l", "e", "s", "-", "e", "x", "t", "r", "a">> :> Dirn) @@ Binary
          @@ (<<"/", "u", "s", "r", "/", "s", "h", "a", "r", "e", "/", "u", "-", "b", "o", "o", "t", "/", "b", "/", "u">> :> File),
      \* the binary listed for initramfs-extra too, with a symlink to it
      KernelRelease @@ FilesDirs @@ Binary
          @@ (<<"/", "u", "s", "r", "/", "b", "i", "n", "/", "s">> :> Go("Link", <<<<"/", "u", "s", "r", "/", "b", "i", "n", "/", "e">>>>))
          @@ (<<"/", "e", "t", "c", "/", "m", "k", "i", "n", "i", "t", "f", "s", "/", "f", "i", "l", "e", "s", "-", "e", "x", "t", "r", "a", "/", "f">> :> Go("Text", <<<< <<"/", "u", "s", "r", "/", "b", "i", "n", "/", "e">>, <<"/", "u", "s", "r", "/", "b", "i", "n", "/", "s">> >>>>)),
      \* a hook that is a binary
      KernelRelease @@ FilesDirs @@ (<<"/", "e", "t", "c", "/", "m", "k", "i", "n", "i", "t", "f", "s", "/", "f", "i", "l", "e", "s", "-", "e", "x", "t", "r", "a">> :> Dirn)
          @@ (<<"/", "u", "s", "r", "/", "s", "h", "a", "r", "e", "/", "m", "k", "i", "n", "i", "t", "f", "s", "/", "h", "o", "o", "k", "s", "/", "h">> :> Go("Elf", <<<< <<"l", "i", "b", "a">> >>>>))
          @@ (<<"/", "u", "s", "r", "/", "l", "i", "b", "/", "l", "i", "b", "a">> :> Go("Elf", <<<<>>>>)),
      \* a hook that is a symlink to itself
      KernelRelease @@ FilesDirs @@ (<<"/", "e", "t", "c", "/", "m", "k", "i", "n", "i", "t", "f", "s", "/", "f", "i", "l", "e", "s", "-", "e", "x", "t", "r", "a">> :> Dirn)
          @@ (<<"/", "e", "t", "c", "/", "m", "k", "i", "n", "i", "t", "f", "s", "/", "h", "o", "o", "k", "s", "-", "e", "x", "t", "r", "a", "/", "c">> :> Go("Link", <<<<"c">>>>)),
      \* a directory among the u-boot files
      KernelRelease @@ FilesDirs @@ (<<"/", "e", "t", "c", "/", "m", "k", "i", "n", "i", "t", "f", "s", "/", "f", "i", "l", "e", "s", "-", "e", "x", "t", "r", "a">> :> Dirn) @@ Binary
          @@ (<<"/", "u", "s", "r", "/", "s", "h", "a", "r", "e", "/", "u", "-", "b", "o", "o", "t", "/", "b", "/", "d">> :> Dirn),
      \* a listed binary whose library needs a library that is missing
      KernelRelease @@ FilesDirs @@ (<<"/", "e", "t", "c", "/", "m", "k", "i", "n", "i", "t", "f", "s", "/", "f", "i", "l", "e", "s", "-", "e", "x", "t", "r", "a">> :> Dirn)
          @@ (<<"/", "u", "s", "r", "/", "b", "i", "n", "/", "e">> :> Go("Elf", <<<< <<"l", "i", "b", "a">> >>>>)) @@ (<<"/", "u", "s", "r", "/", "l", "i", "b", "/", "l", "i", "b", "a">> :> Go("Elf", <<<< <<"l", "i", "b", "m">> >>>>))
          @@ (<<"/", "u", "s", "r", "/", "s", "h", "a", "r", "e", "/", "m", "k", "i", "n", "i", "t", "f", "s", "/", "f", "i", "l", "e", "s", "/", "f">> :> Go("Text", <<<< <<"/", "u", "s", "r", "/", "b", "i", "n", "/", "e">> >>>>)),
      \* no /etc/mkinitfs/files-extra
      KernelRelease @@ FilesDirs @@ Binary,
      \* no kernel release
      FilesDirs @@ (<<"/", "e", "t", "c", "/", "m", "k", "i", "n", "i", "t", "f", "s", "/", "f", "i", "l", "e", "s", "-", "e", "x", "t", "r", "a">> :> Dirn) @@ Binary }

MainHosts ==
    { WithDirs(u @@ e @@ s @@ PlainRoot) : u \in UsrInfos, e \in EtcInfos, s \in Scenes }

InitMain ==
    /\ fs \in MainHosts
    /\ disableBootDeploy \in BOOLEAN
    /\ pc = "usr"
    /\ devinfo = NoDeviceInfo
    /\ deverr = [usr |-> "nil", etc |-> "nil"]
    /\ retCode = 0
    /\ exit = [done |-> FALSE, code |-> 0]
    /\ workDir = "none"
    /\ excludeList = NewFileList
    /\ archives = NewFileList
    /\ failed = {}
    /\ items = <<>>
    /\ written = <<>>
    /\ mu = [w |-> {}, r |-> 0]
    /\ callers = [c \in Callers |-> [pc |-> "idle", item |-> NoItem]]
    /\ firstAdds = {}
    /\ dropped = FALSE
    /\ iter = [pc |-> "off", idx |-> 0]
    /\ AddIdle
    /\ modules = NoModules
    /\ filelist = NoFileList
    /\ call = NoCall

\* main goes on to the step next
Continue(next) ==
    /\ pc' = next
    /\ UNCHANGED <<retCode, exit, workDir, failed>>

\* main returns: the deferred functions run, RemoveAll(workDir) if it has
\* been deferred, and last os.Exit(retCode)
Return ==
    /\ pc' = "exited"
    /\ exit' = [done |-> TRUE, code |-> retCode]
    /\ workDir' = IF workDir = "exists" THEN "removed" ELSE workDir
    /\ UNCHANGED <<retCode, failed>>

\* retCode = 1 and return
Fail(step) ==
    /\ pc' = "exited"
    /\ retCode' = 1
    /\ exit' = [done |-> TRUE, code |-> 1]
    /\ workDir' = IF workDir = "exists" THEN "removed" ELSE workDir
    /\ failed' = failed \cup {step}

\* a panic unwinds main: the deferred functions run, os.Exit(retCode) too
Panic(step) ==
    /\ pc' = "exited"
    /\ exit' = [done |-> TRUE, code |-> retCode]
    /\ workDir' = IF workDir = "exists" THEN "removed" ELSE workDir
    /\ failed' = failed \cup {step}
    /\ UNCHANGED retCode

\* log.Fatal: os.Exit(1) at once, no deferred function runs
Fatal(step) ==
    /\ pc' = "exited"
    /\ exit' = [done |-> TRUE, code |-> 1]
    /\ failed' = failed \cup {step}
    /\ UNCHANGED <<retCode, workDir>>

\* the goroutine stack overflows: the runtime ends the process with status
\* 2, no deferred function runs
Crash ==
    /\ pc' = "exited"
    /\ exit' = [done |-> TRUE, code |-> 2]
    /\ failed' = failed \cup {"crash"}
    /\ UNCHANGED <<retCode, workDir>>

\* deverr_usr := devinfo.ReadDeviceinfo("/usr/share/deviceinfo/deviceinfo"),
\* unmarshal ranging over the variables in the order given
ReadDeviceinfoUsr(order) ==
    /\ pc = "usr"
    /\ LET r == Go("ReadDeviceinfo", <<fs, devinfo, UsrDeviceinfo, order>>) IN
       /\ devinfo' = r.d
       /\ deverr' = [deverr EXCEPT !.usr = r.err]
       /\ pc' = "etc"
       /\ failed' = IF r.err # "nil" /\ Go("Exists", <<fs, UsrDeviceinfo>>).exists
                        THEN failed \cup {"deviceinfo"} ELSE failed
    /\ UNCHANGED <<restVars, fs, items, written, itemsVars, addVars, retCode, exit, workDir,
                   excludeList, archives, disableBootDeploy>>

\* deverr_etc := devinfo.ReadDeviceinfo("/etc/deviceinfo"), and the test
\* of the two errors
ReadDeviceinfoEtc(order) ==
    /\ pc = "etc"
    /\ LET r == Go("ReadDeviceinfo", <<fs, devinfo, EtcDeviceinfo, order>>)
           step == IF Go("Exists", <<fs, EtcDeviceinfo>>).exists
                       THEN "deviceinfo" ELSE "no deviceinfo" IN
       /\ devinfo' = r.d
       /\ deverr' = [deverr EXCEPT !.etc = r.err]
       /\ IF r.err # "nil" /\ deverr.usr # "nil" THEN Fail(step)
          ELSE /\ pc' = "kernver"
               /\ failed' = IF r.err # "nil" /\ Go("Exists", <<fs, EtcDeviceinfo>>).exists
                                THEN failed \cup {"deviceinfo"} ELSE failed
               /\ UNCHANGED <<retCode, exit, workDir>>
    /\ UNCHANGED <<restVars, fs, items, written, itemsVars, addVars, excludeList, archives,
                   disableBootDeploy>>

\* kernVer, err := osutil.GetKernelVersion()
KernelVersion ==
    /\ pc = "kernver"
    /\ IF Go("GetKernelVersion", <<fs>>).err # "nil" THEN Fail("kernel version")
       ELSE Continue("mkdir")
    /\ UNCHANGED <<restVars, fs, items, written, itemsVars, addVars, devinfo, deverr, excludeList,
                   archives, disableBootDeploy>>

\* workDir, err := os.MkdirTemp("", "mkinitfs"), and the defer of RemoveAll
MkdirTemp(ok) ==
    /\ pc = "mkdir"
    /\ IF ok THEN /\ pc' = "initfs"
                  /\ workDir' = "exists"
                  /\ UNCHANGED <<retCode, exit, failed>>
       ELSE Fail("work directory")
    /\ UNCHANGED <<restVars, fs, items, written, itemsVars, addVars, devinfo, deverr, excludeList,
                   archives, disableBootDeploy>>

\* AddItems(initfs), AddItems(initfsExtra) and AddItemsExclude(initfsExtra,
\* initfs) up to the loop: flister.List() and exclude.List()
MainList ==
    /\ pc \in {"initfs", "extraInto", "extra"}
    /\ stage = "off"
    /\ LET list == Go("InitramfsList", <<fs, IF pc = "initfs" THEN InitfsFeatures
                                     ELSE InitfsExtraFeatures>>)
           excl == IF pc = "extra" THEN Go("InitramfsList", <<fs, InitfsFeatures>>)
                   ELSE Listed(NewFileList) IN
       IF list.crashed \/ excl.crashed
           THEN Crash /\ UNCHANGED <<flist, pending, excludeList, stage>>
       ELSE IF list.err # "nil" \/ excl.err # "nil"
           THEN Fail("list") /\ UNCHANGED <<flist, pending, excludeList, stage>>
       ELSE /\ flist' = list.list
            /\ pending' = DOMAIN list.list
            /\ excludeList' = excl.list
            /\ stage' = "adding"
            /\ UNCHANGED <<pc, retCode, exit, workDir, failed>>
    /\ UNCHANGED <<restVars, fs, items, written, itemsVars, history, devinfo, deverr, archives,
                   disableBootDeploy>>

\* One turn of the loop: IterItems delivers an entry, AddItem adds it unless
\* the exclude list has the same pair
MainDeliver(src) ==
    /\ stage = "adding"
    /\ pc \in {"initfs", "extraInto", "extra"}
    /\ src \in pending
    /\ IF Go("Excluded", <<excludeList, src, flist[src]>>)
           THEN /\ pending' = pending \ {src}
                /\ UNCHANGED <<items, pc, retCode, exit, workDir, failed>>
       ELSE LET r == Go("AddItem", <<fs, items, src, flist[src]>>) IN
            IF r.crashed THEN Crash /\ UNCHANGED <<items, pending>>
            ELSE IF r.err # "nil" THEN Fail("add") /\ UNCHANGED <<items, pending>>
            ELSE /\ items' = r.items
                 /\ pending' = pending \ {src}
                 /\ UNCHANGED <<pc, retCode, exit, workDir, failed>>
    /\ UNCHANGED <<restVars, fs, written, itemsVars, flist, history, stage, devinfo, deverr,
                   excludeList, archives, disableBootDeploy>>

\* The channel is closed, AddItems or AddItemsExclude returns nil
MainAdded ==
    /\ stage = "adding"
    /\ pc \in {"initfs", "extraInto", "extra"}
    /\ pending = {}
    /\ stage' = "off"
    /\ Continue(IF pc = "initfs" /\ ~devinfo.CreateInitfsExtra THEN "extraInto"
                ELSE IF pc = "extra" THEN "write extra"
                ELSE "write")
    /\ UNCHANGED <<restVars, fs, items, written, itemsVars, flist, history, pending, devinfo, deverr,
                   excludeList, archives, disableBootDeploy>>

\* Archive.Write(workDir/initramfs) or (workDir/initramfs-extra): writeCpio,
\* then writeCompressed, in which os.Create fails ("create"), or io.Copy,
\* Sync or Chmod fails ("copy"), or none does ("ok"). When os.Create fails
\* the deferred compressor.Close() is called on the nil interface value.
MainWrite(outcome) ==
    /\ pc \in {"write", "write extra"}
    /\ LET l == Go("writeCpioLinks", <<fs, items>>)
           c == copied(fs, l.items, 1)
           name == IF pc = "write" THEN <<"i", "n", "i", "t", "r", "a", "m", "f", "s">> ELSE <<"i", "n", "i", "t", "r", "a", "m", "f", "s", "-", "e", "x", "t", "r", "a">>
           fl == Go("ExtractFormatLevel", <<IF pc = "write" THEN devinfo.InitfsCompression
                                    ELSE devinfo.InitfsExtraCompression>>) IN
       IF l.crashed THEN Crash /\ UNCHANGED <<items, archives>>
       ELSE IF c.err # "nil" \/ outcome = "copy"
           THEN Fail("write") /\ UNCHANGED <<items, archives>>
       ELSE IF outcome = "create"
           THEN Panic("write") /\ UNCHANGED <<items, archives>>
       ELSE /\ archives' = Add(archives, name,
                               [items |-> c.items, format |-> fl.format,
                                level |-> fl.level])
            /\ items' = IF pc = "write" /\ devinfo.CreateInitfsExtra THEN <<>>
                        ELSE l.items
            /\ Continue(IF pc = "write" /\ devinfo.CreateInitfsExtra THEN "extra"
                        ELSE "bootdeploy")
    /\ UNCHANGED <<restVars, fs, written, itemsVars, addVars, devinfo, deverr, excludeList,
                   disableBootDeploy>>

\* The end of main: bootDeploy unless it is disabled. BootDeploy.Run copies
\* the u-boot files and runs boot-deploy, which succeeds or does not
MainBootDeploy(spaceLeft, ran) ==
    /\ pc = "bootdeploy"
    /\ IF disableBootDeploy THEN Return
       ELSE LET e == Go("copyUbootFiles", <<fs, devinfo.UbootBoardname, spaceLeft>>) IN
            IF e # "nil" /\ ~IsNotExist(e) THEN Fatal("u-boot files")
            ELSE IF ~ran THEN Fail("boot-deploy")
            ELSE Return
    /\ UNCHANGED <<restVars, fs, items, written, itemsVars, addVars, devinfo, deverr, excludeList,
                   archives, disableBootDeploy>>

NextMain ==
    \/ \E order \in Orders(Go("VarsOf", <<fs, UsrDeviceinfo>>)) : ReadDeviceinfoUsr(order)
    \/ \E order \in Orders(Go("VarsOf", <<fs, EtcDeviceinfo>>)) : ReadDeviceinfoEtc(order)
    \/ KernelVersion
    \/ \E ok \in BOOLEAN : MkdirTemp(ok)
    \/ MainList
    \/ \E src \in pending : MainDeliver(src)
    \/ MainAdded
    \/ \E outcome \in {"ok", "create", "copy"} : MainWrite(outcome)
    \/ \E spaceLeft, ran \in BOOLEAN : MainBootDeploy(spaceLeft, ran)

SpecMain == InitMain /\ [][NextMain]_vars

\* The sources that the initfs providers and the initfs-extra providers
\* list with the same destination
Overlap(f) ==
    LET a == Go("InitramfsList", <<f, InitfsFeatures>>).list
        b == Go("InitramfsList", <<f, InitfsExtraFeatures>>).list IN
    { src \in DOMAIN a \cap DOMAIN b : a[src] = b[src] }

ArchiveNames(name) == Names(archives[name].items)

\* C4: with create_initfs_extra=true, for every pair listed identically by
\* the initfs providers and the initfs-extra providers, the initramfs has
\* the entry for its destination and the initramfs-extra has no entry of
\* that name, whatever else the initfs-extra providers list.
C4_OverlapOnlyInInitramfs ==
    (devinfo.CreateInitfsExtra /\ <<"i", "n", "i", "t", "r", "a", "m", "f", "s", "-", "e", "x", "t", "r", "a">> \in DOMAIN archives) =>
        \A src \in Overlap(fs) :
            /\ ArchName(fs, Go("InitramfsList", <<fs, InitfsFeatures>>).list[src])
                   \in ArchiveNames(<<"i", "n", "i", "t", "r", "a", "m", "f", "s">>)
            /\ ArchName(fs, Go("InitramfsList", <<fs, InitfsFeatures>>).list[src])
                   \notin ArchiveNames(<<"i", "n", "i", "t", "r", "a", "m", "f", "s", "-", "e", "x", "t", "r", "a">>)

\* The libraries the files of S need, each where getDeps finds it
NeededBy(f, S) ==
    UNION { { Go("FindLib", <<f, Go("ImportedLibraries", <<f, x>>)[i]>>) :
                i \in DOMAIN Go("ImportedLibraries", <<f, x>>) } : x \in S } \ { <<>> }

\* The files of S and every library they need, directly or not
RECURSIVE LibClosure(_, _)
LibClosure(f, S) ==
    IF NeededBy(f, S) \subseteq S THEN S
    ELSE LibClosure(f, S \cup NeededBy(f, S))

\* C6: for every ELF binary that is an entry of a written archive,
\* whichever provider listed it, every library it needs, directly or through
\* another, is an entry of that archive.
C6_LibrariesOfArchivedBinaries ==
    \A name \in DOMAIN archives :
        \A it \in Range(archives[name].items) :
            (it.mode = "file" /\ Go("ElfOpen", <<fs, it.sourcePath>>)) =>
                \A lib \in LibClosure(fs, {it.sourcePath}) :
                    ArchName(fs, lib) \in ArchiveNames(name)

\* C8: whenever the process has exited after the work directory was
\* created, the work directory has been removed.
C8_WorkDirRemovedOnExit == exit.done => workDir # "exists"

\* C9: the exit code is 0 exactly when no step has failed.
C9_ExitCodeTellsFailure == exit.done => (exit.code = 0 <=> failed = {})

\* The variables a deviceinfo file sets
Assigned(f, file) ==
    IF Go("Exists", <<f, file>>).exists THEN Go("SourceFile", <<f, file>>).vars ELSE NewFileList

Recognised(k) == FieldType(Go("nameToField", <<k>>)) # "invalid"

\* The field that the variable k names has the value v (a word that is no
\* boolean is no value of a bool field)
HasValue(d, k, v) ==
    LET field == Go("nameToField", <<k>>) IN
    IF FieldType(field) = "bool"
        THEN ParseBool(v).err = "nil" => d.CreateInitfsExtra = ParseBool(v).v
    ELSE IF field = <<"I", "n", "i", "t", "f", "s", "C", "o", "m", "p", "r", "e", "s", "s", "i", "o", "n">> THEN d.InitfsCompression = v
    ELSE IF field = <<"I", "n", "i", "t", "f", "s", "E", "x", "t", "r", "a", "C", "o", "m", "p", "r", "e", "s", "s", "i", "o", "n">> THEN d.InitfsExtraCompression = v
    ELSE IF field = <<"U", "b", "o", "o", "t", "B", "o", "a", "r", "d", "n", "a", "m", "e">> THEN d.UbootBoardname = v
    ELSE IF field = <<"G", "e", "n", "e", "r", "a", "t", "e", "S", "y", "s", "t", "e", "m", "d", "B", "o", "o", "t">> THEN d.GenerateSystemdBoot = v
    ELSE d.FormatVersion = v

NotFound == "not found, required by mkinitfs"

\* C10: after /usr/share/deviceinfo/deviceinfo and then /etc/deviceinfo have
\* been read, in the record main goes on with every recognised key of
\* /etc/deviceinfo has the value given there and every recognised key of
\* /usr/share alone has the value given there; a missing file has given a
\* "not found" error and left the record as it was; and with both files
\* missing the program has exited non-zero with nothing built.
C10_EtcOverlaysUsr ==
    LET usr == Assigned(fs, UsrDeviceinfo)
        etc == Assigned(fs, EtcDeviceinfo) IN
    /\ (pc = "etc" /\ ~Go("Exists", <<fs, UsrDeviceinfo>>).exists) =>
           (devinfo = NoDeviceInfo /\ deverr.usr = NotFound)
    /\ pc \notin {"off", "usr", "etc"} =>
           /\ (deverr.usr = "nil" \/ deverr.etc = "nil") =>
                  /\ \A k \in DOMAIN etc : Recognised(k) => HasValue(devinfo, k, etc[k])
                  /\ \A k \in DOMAIN usr \ DOMAIN etc :
                         Recognised(k) => HasValue(devinfo, k, usr[k])
           /\ ~Go("Exists", <<fs, EtcDeviceinfo>>).exists =>
                  /\ deverr.etc = NotFound
                  /\ \E order \in Orders(DOMAIN usr) :
                         devinfo = Go("ReadDeviceinfo", <<fs, NoDeviceInfo, UsrDeviceinfo, order>>).d
           /\ (~Go("Exists", <<fs, UsrDeviceinfo>>).exists /\ ~Go("Exists", <<fs, EtcDeviceinfo>>).exists) =>
                  /\ exit.done /\ exit.code # 0
                  /\ workDir = "none" /\ archives = NewFileList

FormatVersionKey == <<"d", "e", "v", "i", "c", "e", "i", "n", "f", "o", "_", "f", "o", "r", "m", "a", "t", "_", "v", "e", "r", "s", "i", "o", "n">>

\* The format version after overlaying /etc/deviceinfo on
\* /usr/share/deviceinfo/deviceinfo; the empty string when neither sets it
EffectiveFormatVersion(f) ==
    LET usr == Assigned(f, UsrDeviceinfo)
        etc == Assigned(f, EtcDeviceinfo) IN
    IF FormatVersionKey \in DOMAIN etc THEN etc[FormatVersionKey]
    ELSE IF FormatVersionKey \in DOMAIN usr THEN usr[FormatVersionKey]
    ELSE <<>>

\* C11: once the two deviceinfo files have been read, main goes on to the
\* kernel version only when the overlaid deviceinfo_format_version is "0";
\* with any other value, or none, the program has exited non-zero and no
\* archive was produced.
C11_FormatVersionZeroOrExit ==
    (pc \notin {"off", "usr", "etc"} /\ EffectiveFormatVersion(fs) # <<"0">>) =>
        /\ exit.done /\ exit.code # 0
        /\ archives = NewFileList

----------------------------------------------------------------------------
(* The Modules provider: List over hosts with a modules directory *)

ModulesPath == <<"/", "u", "s", "r", "/", "s", "h", "a", "r", "e", "/", "m", "k", "i", "n", "i", "t", "f", "s", "/", "m", "o", "d", "u", "l", "e", "s">>

ModDir == <<"/", "l", "i", "b", "/", "m", "o", "d", "u", "l", "e", "s", "/", "6", ".", "1">>

\* modules.dep: a module with a dependency, one without, and one whose file
\* name has "-" and two extensions
DepLines == << <<"k", "e", "r", "n", "e", "l", "/", "a", ".", "k", "o", ":", " ", "k", "e", "r", "n", "e", "l", "/", "b", ".", "k", "o">>, <<"k", "e", "r", "n", "e", "l", "/", "b", ".", "k", "o", ":">>, <<"k", "e", "r", "n", "e", "l", "/", "c", "-", "d", ".", "k", "o", ".", "x", "z", ":">> >>

ModuleFiles == { <<"k", "e", "r", "n", "e", "l", "/", "a", ".", "k", "o">>, <<"k", "e", "r", "n", "e", "l", "/", "b", ".", "k", "o">>, <<"k", "e", "r", "n", "e", "l", "/", "c", "-", "d", ".", "k", "o", ".", "x", "z">> }

\* The module list file of ModulesPath: none, or one with these lines
ModuleLists == { <<>>, << <<"a">> >>, << <<"c", "_", "d">>, <<"z", "z">> >>, << <<"k", "e", "r", "n", "e", "l", "/">> >>, << <<"b">> >> }

ListFile(lines) ==
    IF lines = <<>> THEN NoFiles ELSE Go("Join", <<ModulesPath, <<"m">>>>) :> Go("Text", <<lines>>)

\* The hosts: without /lib/modules/6.1; or with it, with or without
\* modules.dep, and with any of the module files
ModulesHosts ==
    { WithDirs(ListFile(l) @@ KernelRelease @@ PlainRoot) : l \in ModuleLists }
    \cup { WithDirs(ListFile(l) @@ dep @@ [p \in { Go("Join", <<ModDir, x>>) : x \in S } |-> File]
                    @@ (ModDir :> Dirn) @@ KernelRelease @@ PlainRoot) :
             l \in ModuleLists,
             dep \in { NoFiles, Go("Join", <<ModDir, ModulesDepName>>) :> Go("Text", <<DepLines>>) },
             S \in SUBSET ModuleFiles }

\* modulesList of modules.New
ModuleNames == { <<>>, << <<"a">> >>, << <<"z", "z">> >> }

InitModules ==
    /\ fs \in ModulesHosts
    /\ modules \in { [modulesList |-> ml, modulesListPath |-> ModulesPath] :
                       ml \in ModuleNames }
    /\ items = <<>>
    /\ written = <<>>
    /\ mu = [w |-> {}, r |-> 0]
    /\ callers = [c \in Callers |-> [pc |-> "idle", item |-> NoItem]]
    /\ firstAdds = {}
    /\ dropped = FALSE
    /\ iter = [pc |-> "off", idx |-> 0]
    /\ flist = NewFileList
    /\ history = <<>>
    /\ pending = {}
    /\ stage = "build"
    /\ MainIdle
    /\ filelist = NoFileList
    /\ call = NoCall

\* Modules.List
List ==
    /\ stage = "build"
    /\ modules # NoModules
    /\ LET r == Go("ModulesList", <<fs, modules.modulesList, modules.modulesListPath>>) IN
       /\ flist' = r.list
       /\ stage' = IF r.err # "nil" THEN "failed" ELSE "listed"
    /\ UNCHANGED <<restVars, mainVars, fs, items, written, itemsVars, history, pending>>

NextModules == List

SpecModules == InitModules /\ [][NextModules]_vars

\* /lib/modules/<kernver> and the lines of its modules.dep
ModDirOf(f) == Go("Join", <<LibModules, Go("GetKernelVersion", <<f>>).version>>)

DepLinesOf(f) == Go("ReadLines", <<f, Go("Join", <<ModDirOf(f), ModulesDepName>>)>>).lines

\* The lines of the list files of the provider
ListLines(f, m) ==
    UNION { Range(Go("ReadLines", <<f, Go("Join", <<m.modulesListPath, n>>)>>).lines) :
              n \in Range(Go("ReadDir", <<f, m.modulesListPath>>).names) }

\* The module names the provider is asked for: modulesList, and the lines
\* of the list files that are names
Requested(f, m) ==
    Range(m.modulesList)
        \cup { l \in ListLines(f, m) : Go("SplitPath", <<l>>).dir = <<>> /\ Go("SplitPath", <<l>>).file # <<>> }

\* The paths on the modules.dep line matched to the name, under the
\* modules directory; none when no line matches
PathsOf(f, n) ==
    LET line == Go("getModuleDeps", <<n, DepLinesOf(f)>>) IN
    { Go("Join", <<ModDirOf(f), line[i]>>) : i \in DOMAIN line }

\* What List adds besides named modules: modules.*, and the modules of the
\* directories the list files name
Unnamed(f, m) ==
    Go("Glob", <<f, Go("Join", <<ModDirOf(f), ModulesGlob>>)>>)
        \cup UNION { Go("getModulesInDir", <<f, d>>).files :
                       d \in UNION { Go("Glob", <<f, Go("Join", <<ModDirOf(f), Go("SplitPath", <<l>>).dir>>)>>) :
                                       l \in { x \in ListLines(f, m) :
                                                  Go("SplitPath", <<x>>).file = <<>> } } }

\* C7 as claimed: List fails, and returns no FileList, exactly if a path on
\* the modules.dep line matched to a requested name does not exist;
\* otherwise the FileList has every path of every matched line, and a name
\* that matches no line adds nothing and is no error.
C7_MatchedLinesWholeOrError ==
    stage \in {"listed", "failed"} =>
        /\ stage = "failed" <=>
               \E n \in Requested(fs, modules) :
                   \E p \in PathsOf(fs, n) : ~Go("Exists", <<fs, p>>).exists
        /\ stage = "failed" => flist = NewFileList
        /\ stage = "listed" =>
               /\ DOMAIN flist = Unnamed(fs, modules)
                      \cup UNION { PathsOf(fs, n) : n \in Requested(fs, modules) }
               /\ \A p \in DOMAIN flist : flist[p] = p

\* C7 amended: as claimed when modules.dep exists; when the modules
\* directory exists without modules.dep, List fails for any requested name.
C7_MatchedLinesWholeOrErrorWithModulesDep ==
    stage \in {"listed", "failed"} =>
        /\ stage = "failed" <=>
               \E n \in Requested(fs, modules) :
                   \/ \E p \in PathsOf(fs, n) : ~Go("Exists", <<fs, p>>).exists
                   \/ /\ Go("Exists", <<fs, ModDirOf(fs)>>).exists
                      /\ ~Go("Exists", <<fs, Go("Join", <<ModDirOf(fs), ModulesDepName>>)>>).exists
        /\ stage = "failed" => flist = NewFileList
        /\ stage = "listed" =>
               /\ DOMAIN flist = Unnamed(fs, modules)
                      \cup UNION { PathsOf(fs, n) : n \in Requested(fs, modules) }
               /\ \A p \in DOMAIN flist : flist[p] = p

\* List has returned a FileList with a module and its dependency, for a
\* request that also names a module of no line
C7_Witness ==
    /\ stage = "listed"
    /\ \E n \in Requested(fs, modules) :
          Cardinality(PathsOf(fs, n)) >= 2 /\ PathsOf(fs, n) \subseteq DOMAIN flist
    /\ \E n \in Requested(fs, modules) : PathsOf(fs, n) = {}

----------------------------------------------------------------------------
(* FileList: Add, Get and IterItems called by concurrent goroutines on   *)
(* one list. filelist.w is the goroutine inside Lock or holding the      *)
(* write lock, filelist.readers the goroutines holding the read lock,    *)
(* filelist.writing the goroutines in the middle of the map assignment.  *)

NumAdders == 2

Adders == 1..NumAdders

\* The Add that Import makes for each entry it receives, when the consumer
\* of the iteration is f.Import(f)
ImportAdder == NumAdders + 1

AllAdders == Adders \cup {ImportAdder}

ListSources == { <<"/", "x">>, <<"/", "y">> }

ListStarts ==
    { NewFileList, <<"/", "x">> :> <<"/", "0">>, (<<"/", "x">> :> <<"/", "0">>) @@ (<<"/", "y">> :> <<"/", "0">>) }

\* The destination that adder a records
DestOf(a) == << "/", ToString(a) >>

InitFileList ==
    /\ fs = PlainRoot
    /\ items = <<>>
    /\ written = <<>>
    /\ mu = [w |-> {}, r |-> 0]
    /\ callers = [c \in Callers |-> [pc |-> "idle", item |-> NoItem]]
    /\ firstAdds = {}
    /\ dropped = FALSE
    /\ iter = [pc |-> "off", idx |-> 0]
    /\ AddIdle
    /\ MainIdle
    /\ modules = NoModules
    /\ call = NoCall
    /\ \E m \in ListStarts, g \in ListSources, imp \in BOOLEAN :
           \E srcs \in [Adders -> ListSources] :
               filelist = [NoFileList EXCEPT
                   !.m = m,
                   !.importing = imp,
                   !.add = [a \in AllAdders |->
                               IF a \in Adders
                               THEN [pc |-> "lock", src |-> srcs[a], dest |-> DestOf(a)]
                               ELSE [pc |-> "idle", src |-> <<>>, dest |-> <<>>]],
                   !.get = [pc |-> "rlock", src |-> g, dest |-> <<>>, found |-> FALSE],
                   !.iter = [pc |-> "rlock", ranged |-> {}]]

\* A map access by goroutine self (0: a reader) that overlaps the assignment
\* of another goroutine
Torn(l, self) == l.torn \/ l.writing \ {self} # {}

\* f.Lock() excludes the other writers and new readers at once ...
CanLock(l) == l.w = 0

\* A Lock that returns while readers hold the lock
AcquireIgnoresReaders(l) == TRUE

\* ... and returns when the readers that hold the lock have left

CanAcquire(l) == l.readers = {}

\* f.RLock() returns when no goroutine is inside Lock or holds the lock
CanRLock(l) == l.w = 0

ListFrame == UNCHANGED <<fs, items, written, itemsVars, addVars, mainVars, modules, call>>

\* Add: f.Lock() is entered
ListAddLock(a) ==
    /\ filelist.add[a].pc = "lock"
    /\ CanLock(filelist)
    /\ filelist' = [filelist EXCEPT !.w = a, !.add[a].pc = "acquire"]
    /\ ListFrame

\* Add: f.Lock() returns
ListAddAcquire(a) ==
    /\ filelist.add[a].pc = "acquire"
    /\ CanAcquire(filelist)
    /\ filelist' = [filelist EXCEPT !.add[a].pc = "assign"]
    /\ ListFrame

\* Add: f.m[src] = dest begins; the map is in no consistent state until
\* the assignment has ended
ListAddAssign(a) ==
    /\ filelist.add[a].pc = "assign"
    /\ filelist' = [filelist EXCEPT !.writing = @ \cup {a},
                                    !.torn = Torn(filelist, a),
                                    !.add[a].pc = "assigning"]
    /\ ListFrame

\* Add: f.m[src] = dest ends
ListAddAssigned(a) ==
    /\ filelist.add[a].pc = "assigning"
    /\ filelist' = [filelist EXCEPT
           !.m = Add(filelist.m, filelist.add[a].src, filelist.add[a].dest),
           !.writing = @ \ {a},
           !.torn = Torn(filelist, a),
           !.add[a].pc = "unlock"]
    /\ ListFrame

\* Add: the deferred f.Unlock()
ListAddUnlock(a) ==
    /\ filelist.add[a].pc = "unlock"
    /\ filelist' = [filelist EXCEPT !.w = IF @ = a THEN 0 ELSE @,
                                    !.add[a].pc = "done"]
    /\ ListFrame

\* Get: f.RLock()
ListGetRLock ==
    /\ filelist.get.pc = "rlock"
    /\ CanRLock(filelist)
    /\ filelist' = [filelist EXCEPT !.readers = @ \cup {"get"}, !.get.pc = "lookup"]
    /\ ListFrame

\* Get: dest, found := f.m[src]
ListGetLookup ==
    /\ filelist.get.pc = "lookup"
    /\ LET r == Get(filelist.m, filelist.get.src) IN
       filelist' = [filelist EXCEPT !.get = [pc |-> "runlock", src |-> @.src,
                                             dest |-> r.dest, found |-> r.found],
                                    !.torn = Torn(filelist, 0)]
    /\ ListFrame

\* Get: the deferred f.RUnlock()
ListGetRUnlock ==
    /\ filelist.get.pc = "runlock"
    /\ filelist' = [filelist EXCEPT !.readers = @ \ {"get"}, !.get.pc = "done"]
    /\ ListFrame

\* IterItems: f.RLock() in the goroutine
ListIterRLock ==
    /\ filelist.iter.pc = "rlock"
    /\ CanRLock(filelist)
    /\ filelist' = [filelist EXCEPT !.readers = @ \cup {"iter"},
                                    !.snapshot = filelist.m,
                                    !.iter.pc = "range"]
    /\ ListFrame

\* IterItems: one round of the range over f.m, ch <- File{src, dest}. The
\* channel has no buffer: the send ends when the item is received.
ListIterSend(src) ==
    /\ filelist.iter.pc = "range"
    /\ filelist.ch = <<>>
    /\ src \in DOMAIN filelist.m \ filelist.iter.ranged
    /\ filelist' = [filelist EXCEPT
           !.ch = << [Source |-> src, Dest |-> filelist.m[src]] >>,
           !.iter.ranged = @ \cup {src},
           !.torn = Torn(filelist, 0)]
    /\ ListFrame

\* The receiver of the channel takes the item, when it is in its range
\* loop: it has not returned and is not inside a call of its loop body.
\* Import then calls f.Add(i.Source, i.Dest).
ListReceive ==
    /\ filelist.ch # <<>>
    /\ filelist.consumer = "receiving"
    /\ filelist.add[ImportAdder].pc \in {"idle", "done"}
    /\ filelist' = [filelist EXCEPT
           !.ch = <<>>,
           !.received = Append(@, filelist.ch[1]),
           !.add[ImportAdder] =
               IF filelist.importing
               THEN [pc |-> "lock", src |-> filelist.ch[1].Source,
                     dest |-> filelist.ch[1].Dest]
               ELSE @]
    /\ ListFrame

\* The receiver returns from inside its range loop, as AddItems,
\* AddItemsExclude and writeCpio do with the error of the entry received
ListStop ==
    /\ filelist.consumer = "receiving"
    /\ ~filelist.importing
    /\ filelist.received # <<>>
    /\ ~filelist.closed
    /\ filelist' = [filelist EXCEPT !.consumer = "stopped"]
    /\ ListFrame

\* IterItems: the range is over, close(ch)
ListIterClose ==
    /\ filelist.iter.pc = "range"
    /\ filelist.ch = <<>>
    /\ DOMAIN filelist.m \subseteq filelist.iter.ranged
    /\ filelist' = [filelist EXCEPT !.closed = TRUE, !.iter.pc = "runlock"]
    /\ ListFrame

\* IterItems: the deferred f.RUnlock()
ListIterRUnlock ==
    /\ filelist.iter.pc = "runlock"
    /\ filelist' = [filelist EXCEPT !.readers = @ \ {"iter"}, !.iter.pc = "done"]
    /\ ListFrame

NextFileList ==
    \/ \E a \in AllAdders :
           \/ ListAddLock(a)
           \/ ListAddAcquire(a)
           \/ ListAddAssign(a)
           \/ ListAddAssigned(a)
           \/ ListAddUnlock(a)
    \/ ListGetRLock
    \/ ListGetLookup
    \/ ListGetRUnlock
    \/ ListIterRLock
    \/ \E src \in ListSources : ListIterSend(src)
    \/ ListReceive
    \/ ListStop
    \/ ListIterClose
    \/ ListIterRUnlock

SpecFileList == InitFileList /\ [][NextFileList]_vars

\* One call of Add, the call of Get, the goroutine of IterItems
AddSteps(a) ==
    \/ ListAddLock(a)
    \/ ListAddAcquire(a)
    \/ ListAddAssign(a)
    \/ ListAddAssigned(a)
    \/ ListAddUnlock(a)

GetSteps == ListGetRLock \/ ListGetLookup \/ ListGetRUnlock

IterSteps ==
    \/ ListIterRLock
    \/ \E src \in ListSources : ListIterSend(src)
    \/ ListIterClose
    \/ ListIterRUnlock

\* The Go scheduler runs every goroutine that can take a step; nothing
\* makes a receiver return early
SpecFileListFair ==
    /\ SpecFileList
    /\ \A a \in AllAdders : WF_vars(AddSteps(a))
    /\ WF_vars(GetSteps)
    /\ WF_vars(IterSteps)
    /\ WF_vars(ListReceive)

\* The entries of a mapping, as IterItems sends them
FilesOf(m) == { [Source |-> src, Dest |-> m[src]] : src \in DOMAIN m }

\* C12: no goroutine reads or writes the map while another is in the
\* middle of assigning to it; what the iteration has sent are entries the
\* mapping held when the iteration got the read lock, each once; when the
\* channel is closed all of them have been received; and while the
\* iteration holds the read lock the mapping is the one it found.
C12_FileListIsRaceFreeAndIterationIsASnapshot ==
    /\ ~filelist.torn
    /\ Cardinality(filelist.writing) <= 1
    /\ \A i \in 1..Len(filelist.received) :
           /\ filelist.received[i] \in FilesOf(filelist.snapshot)
           /\ \A j \in 1..Len(filelist.received) :
                  filelist.received[i] = filelist.received[j] => i = j
    /\ filelist.closed =>
           { filelist.received[i] : i \in 1..Len(filelist.received) }
               = FilesOf(filelist.snapshot)
    /\ "iter" \in filelist.readers => filelist.m = filelist.snapshot

\* An iteration over two entries has ended after one Add was made and
\* before another, which then changed the mapping; Get found its source
C12_Witness ==
    /\ filelist.closed
    /\ Len(filelist.received) = 2
    /\ filelist.m # filelist.snapshot
    /\ \E a \in Adders : \E f \in FilesOf(filelist.snapshot) : f.Dest = DestOf(a)
    /\ filelist.get.found
    /\ \A a \in Adders : filelist.add[a].pc = "done"

----------------------------------------------------------------------------
(* Calls of single functions: misc.getFile, archive.ExtractFormatLevel,  *)
(* modules' getModuleDeps, osutil.MergeUsr and osutil.HasMergedUsr, each *)
(* applied once to an input on a host                                    *)

\* /bin and /lib: "link" a symlink into /usr, "dir" a directory, "none" missing
RootEntry(p, target, kind) ==
    IF kind = "link" THEN p :> Go("Link", <<target>>)
    ELSE IF kind = "dir" THEN p :> Dirn
    ELSE NoFiles

RootKinds == {"link", "dir", "none"}

CallRoots ==
    { RootEntry(Bin, <<"u", "s", "r", "/", "b", "i", "n">>, b) @@ RootEntry(Lib, <<"u", "s", "r", "/", "l", "i", "b">>, l)
          @@ (Usr :> Dirn) @@ (UsrBin :> Dirn) @@ (UsrLib :> Dirn) :
        b \in RootKinds, l \in RootKinds }

\* What lies under /t and /usr/bin: a directory and a symlink to it; a file
\* and two symlinks to it, one relative; a compressed firmware file; a file
\* of /usr/bin, alone and beside a compressed file of /bin; nothing
GetFileScenes ==
    { (<<"/", "t", "/", "t", "a", "r", "g", "e", "t", "/", "f", "i", "l", "e", "1">> :> File) @@ (<<"/", "t", "/", "t", "a", "r", "g", "e", "t", "/", "f", "i", "l", "e", "2">> :> File)
          @@ (<<"/", "t", "/", "s", "y", "m", "l", "i", "n", "k">> :> Go("Link", <<<<"/", "t", "/", "t", "a", "r", "g", "e", "t">>>>)),
      (<<"/", "t", "/", "t", "a", "r", "g", "e", "t", ".", "t", "x", "t">> :> File) @@ (<<"/", "t", "/", "s", "y", "m", "l", "i", "n", "k", ".", "t", "x", "t">> :> Go("Link", <<<<"/", "t", "/", "t", "a", "r", "g", "e", "t", ".", "t", "x", "t">>>>))
          @@ (<<"/", "t", "/", "r", "e", "l">> :> Go("Link", <<<<"t", "a", "r", "g", "e", "t", ".", "t", "x", "t">>>>)),
      (<<"/", "t", "/", "f", "i", "r", "m", "w", "a", "r", "e", ".", "b", "i", "n", ".", "z", "s", "t">> :> File),
      (<<"/", "u", "s", "r", "/", "b", "i", "n", "/", "x">> :> File),
      (<<"/", "u", "s", "r", "/", "b", "i", "n", "/", "x">> :> File) @@ (<<"/", "b", "i", "n", "/", "x", ".", "z", "s", "t">> :> File),
      (<<"/", "t">> :> Dirn) }

\* ELF binaries and the libraries they need: a chain of two libraries; a
\* library missing at the second level; the same beneath the second
\* library of the binary; two libraries that need each other; two libraries that need a
\* third; a directory with a plain file and a binary whose library is
\* missing; a library in /usr/lib/expect1; a symlink to a binary whose
\* library is missing; a cycle of libraries one of which needs a missing one
ElfScenes ==
    { (<<"/", "u", "s", "r", "/", "b", "i", "n", "/", "a", "p", "p">> :> Go("Elf", <<<< <<"l", "i", "b", "a">> >>>>)) @@ (<<"/", "u", "s", "r", "/", "l", "i", "b", "/", "l", "i", "b", "a">> :> Go("Elf", <<<< <<"l", "i", "b", "b">> >>>>))
          @@ (<<"/", "u", "s", "r", "/", "l", "i", "b", "/", "l", "i", "b", "b">> :> Go("Elf", <<<<>>>>)),
      (<<"/", "u", "s", "r", "/", "b", "i", "n", "/", "a", "p", "p">> :> Go("Elf", <<<< <<"l", "i", "b", "a">> >>>>)) @@ (<<"/", "u", "s", "r", "/", "l", "i", "b", "/", "l", "i", "b", "a">> :> Go("Elf", <<<< <<"l", "i", "b", "m">> >>>>)),
      (<<"/", "u", "s", "r", "/", "b", "i", "n", "/", "a", "p", "p">> :> Go("Elf", <<<< <<"l", "i", "b", "a">>, <<"l", "i", "b", "c">> >>>>)) @@ (<<"/", "u", "s", "r", "/", "l", "i", "b", "/", "l", "i", "b", "a">> :> Go("Elf", <<<<>>>>))
          @@ (<<"/", "u", "s", "r", "/", "l", "i", "b", "/", "l", "i", "b", "c">> :> Go("Elf", <<<< <<"l", "i", "b", "m">> >>>>)),
      (<<"/", "u", "s", "r", "/", "b", "i", "n", "/", "a", "p", "p">> :> Go("Elf", <<<< <<"l", "i", "b", "a">> >>>>)) @@ (<<"/", "u", "s", "r", "/", "l", "i", "b", "/", "l", "i", "b", "a">> :> Go("Elf", <<<< <<"l", "i", "b", "b">> >>>>))
          @@ (<<"/", "u", "s", "r", "/", "l", "i", "b", "/", "l", "i", "b", "b">> :> Go("Elf", <<<< <<"l", "i", "b", "a">> >>>>)),
      (<<"/", "u", "s", "r", "/", "b", "i", "n", "/", "a", "p", "p">> :> Go("Elf", <<<< <<"l", "i", "b", "a">>, <<"l", "i", "b", "b">> >>>>))
          @@ (<<"/", "u", "s", "r", "/", "l", "i", "b", "/", "l", "i", "b", "a">> :> Go("Elf", <<<< <<"l", "i", "b", "c">> >>>>))
          @@ (<<"/", "u", "s", "r", "/", "l", "i", "b", "/", "l", "i", "b", "b">> :> Go("Elf", <<<< <<"l", "i", "b", "c">> >>>>)) @@ (<<"/", "u", "s", "r", "/", "l", "i", "b", "/", "l", "i", "b", "c">> :> Go("Elf", <<<<>>>>)),
      (<<"/", "t", "/", "d", "/", "a">> :> File) @@ (<<"/", "t", "/", "d", "/", "b">> :> Go("Elf", <<<< <<"l", "i", "b", "m">> >>>>)),
      (<<"/", "u", "s", "r", "/", "b", "i", "n", "/", "a", "p", "p">> :> Go("Elf", <<<< <<"l", "i", "b", "x">> >>>>)) @@ (<<"/", "u", "s", "r", "/", "l", "i", "b", "/", "e", "x", "p", "e", "c", "t", "1", "/", "l", "i", "b", "x">> :> Go("Elf", <<<<>>>>)),
      (<<"/", "u", "s", "r", "/", "b", "i", "n", "/", "s", "h">> :> Go("Link", <<<<"/", "u", "s", "r", "/", "b", "i", "n", "/", "a", "p", "p">>>>)) @@ (<<"/", "u", "s", "r", "/", "b", "i", "n", "/", "a", "p", "p">> :> Go("Elf", <<<< <<"l", "i", "b", "m">> >>>>)),
      (<<"/", "u", "s", "r", "/", "b", "i", "n", "/", "a", "p", "p">> :> Go("Elf", <<<< <<"l", "i", "b", "a">> >>>>))
          @@ (<<"/", "u", "s", "r", "/", "l", "i", "b", "/", "l", "i", "b", "a">> :> Go("Elf", <<<< <<"l", "i", "b", "b">>, <<"l", "i", "b", "m">> >>>>))
          @@ (<<"/", "u", "s", "r", "/", "l", "i", "b", "/", "l", "i", "b", "b">> :> Go("Elf", <<<< <<"l", "i", "b", "a">> >>>>)) }

\* Symlinks under /t: one whose target is itself, two that point at each
\* other, a chain of two that ends at a file, one to a missing path
LinkScenes ==
    { (<<"/", "t", "/", "a">> :> Go("Link", <<<<"a">>>>)),
      (<<"/", "t", "/", "a">> :> Go("Link", <<<<"/", "t", "/", "b">>>>)) @@ (<<"/", "t", "/", "b">> :> Go("Link", <<<<"/", "t", "/", "a">>>>)),
      (<<"/", "t", "/", "a">> :> Go("Link", <<<<"/", "t", "/", "b">>>>)) @@ (<<"/", "t", "/", "b">> :> Go("Link", <<<<"c">>>>)) @@ (<<"/", "t", "/", "c">> :> File),
      (<<"/", "t", "/", "a">> :> Go("Link", <<<<"/", "t", "/", "n", "o", "n", "e">>>>)) }

CallHosts ==
    { WithDirs(s @@ r) : s \in GetFileScenes \cup ElfScenes \cup LinkScenes, r \in CallRoots }

GetFileInputs ==
    { <<"/", "t", "/", "s", "y", "m", "l", "i", "n", "k">>, <<"/", "t", "/", "s", "y", "m", "l", "i", "n", "k", ".", "t", "x", "t">>, <<"/", "t", "/", "r", "e", "l">>, <<"/", "t", "/", "t", "a", "r", "g", "e", "t">>, <<"/", "t", "/", "t", "a", "r", "g", "e", "t", ".", "t", "x", "t">>,
      <<"/", "t", "/", "f", "i", "r", "m", "w", "a", "r", "e", ".", "b", "i", "n">>, <<"/", "t", "/", "m", "i", "s", "s", "i", "n", "g">>, <<"/", "b", "i", "n", "/", "x">>, <<"/", "t", "/", "*", ".", "t", "x", "t">> }

InitCalls ==
    /\ fs \in CallHosts
    /\ items = <<>>
    /\ written = <<>>
    /\ mu = [w |-> {}, r |-> 0]
    /\ callers = [c \in Callers |-> [pc |-> "idle", item |-> NoItem]]
    /\ firstAdds = {}
    /\ dropped = FALSE
    /\ iter = [pc |-> "off", idx |-> 0]
    /\ AddIdle
    /\ MainIdle
    /\ modules = NoModules
    /\ filelist = NoFileList
    /\ call = NoCall

CallFrame == UNCHANGED <<fs, items, written, itemsVars, addVars, mainVars, modules, filelist>>

\* files, err := getFile(file, required)
CallGetFile(file, required) ==
    /\ call = NoCall
    /\ call' = [op |-> "getFile", args |-> <<file, required>>,
                result |-> Go("getFile", <<fs, file, required>>)]
    /\ CallFrame

\* The strings given as deviceinfo_initfs_compression: format and level in
\* either case, known and unknown, with and without the colon
ExtractInputs ==
    { f \o sep \o l :
        f \in { <<"g", "z", "i", "p">>, <<"G", "Z", "I", "P">>, <<"L", "z", "m", "a">>, <<"l", "z", "4">>, <<"z", "s", "t", "d">>, <<"n", "o", "n", "e">>, <<"x", "z">>, <<"z", "s", "t">>, <<>> },
        sep \in { <<>>, <<":">> },
        l \in { <<>>, <<"f", "a", "s", "t">>, <<"B", "e", "s", "t">>, <<"d", "e", "f", "a", "u", "l", "t">>, <<"F", "A", "S", "T">>, <<"s", "l", "o", "w">>, <<"f", "a", "s", "t", ":", "b", "e", "s", "t">>, <<":", "f", "a", "s", "t">> } }

\* format, level := archive.ExtractFormatLevel(s)
CallExtractFormatLevel(s) ==
    /\ call = NoCall
    /\ call' = [op |-> "ExtractFormatLevel", args |-> <<s>>,
                result |-> Go("ExtractFormatLevel", <<s>>)]
    /\ CallFrame

\* modules.dep: an empty line, modules with and without dependencies, two
\* lines that one name matches, names with "-" and with "_"
ModulesDepLines ==
    << <<>>,
       <<"k", "e", "r", "n", "e", "l", "/", "f", "s", "/", "n", "l", "s", "/", "n", "l", "s", "_", "i", "s", "o", "8", "8", "5", "9", "-", "1", ".", "k", "o", ".", "x", "z", ":">>,
       <<"k", "e", "r", "n", "e", "l", "/", "w", "/", "d", "w", "_", "w", "d", "t", ".", "k", "o", ".", "x", "z", ":", " ", "k", "e", "r", "n", "e", "l", "/", "w", "/", "w", "a", "t", "c", "h", "d", "o", "g", ".", "k", "o", ".", "x", "z">>,
       <<"k", "e", "r", "n", "e", "l", "/", "w", "/", "w", "a", "t", "c", "h", "d", "o", "g", ".", "k", "o", ".", "x", "z", ":">>,
       <<"k", "e", "r", "n", "e", "l", "/", "a", "b", "c", ".", "k", "o", ":">>,
       <<"k", "e", "r", "n", "e", "l", "/", "x", "/", "d", "w", "-", "_", "w", "d", "t", ".", "k", "o", ":", " ", "k", "e", "r", "n", "e", "l", "/", "a", "b", "c", ".", "k", "o", " ", "k", "e", "r", "n", "e", "l", "/", "w", "/", "w", "a", "t", "c", "h", "d", "o", "g", ".", "k", "o", ".", "x", "z">> >>

ModulesDepFiles == { <<>>, ModulesDepLines }

ModNames ==
    { <<"n", "l", "s", "-", "i", "s", "o", "8", "8", "5", "9", "-", "1">>, <<"n", "l", "s", "_", "i", "s", "o", "8", "8", "5", "9", "_", "1">>, <<"d", "w", "-", "w", "d", "t">>, <<"d", "w", "_", "_", "w", "d", "t">>, <<"w", "d", "t">>, <<"d", "w">>,
      <<"w", "a", "t", "c", "h", "d", "o", "g">>, <<"a", "b", "c">>, <<"a", ".", "c">>, <<"z", "z">>, <<"n", "l", "s">> }

\* deps, err := getModuleDeps(modName, modulesDep)
CallGetModuleDeps(modName, lines) ==
    /\ call = NoCall
    /\ call' = [op |-> "getModuleDeps", args |-> <<modName, lines>>,
                result |-> Go("getModuleDeps", <<modName, lines>>)]
    /\ CallFrame

\* The paths of TestMergeUsr, the directories themselves, paths that begin
\* like one of them, and paths elsewhere
MergeUsrInputs ==
    { <<"/", "b", "i", "n", "/", "f", "o", "o">>, <<"/", "s", "b", "i", "n", "/", "f", "o", "o">>, <<"/", "u", "s", "r", "/", "s", "b", "i", "n", "/", "f", "o", "o">>, <<"/", "u", "s", "r", "/", "b", "i", "n", "/", "f", "o", "o">>, <<"/", "l", "i", "b", "/", "f", "o", "o", ".", "s", "o">>,
      <<"/", "l", "i", "b", "6", "4", "/", "f", "o", "o", ".", "s", "o">>, <<"/", "b", "i", "n">>, <<"/", "b", "i", "n", "a", "r", "y", "/", "x">>, <<"/", "l", "i", "b", "e", "x", "e", "c", "/", "x">>, <<"/", "s", "b", "i", "n", "x">>, <<"/", "e", "t", "c", "/", "x">>,
      <<"/", "u", "s", "r", "/", "l", "i", "b", "/", "x">>, <<"b", "i", "n", "/", "f", "o", "o">>, <<"/", "l">> }

\* out := osutil.MergeUsr(file)
CallMergeUsr(file) ==
    /\ call = NoCall
    /\ call' = [op |-> "MergeUsr", args |-> <<file>>, result |-> Go("MergeUsr", <<file>>)]
    /\ CallFrame

\* osutil.HasMergedUsr()
CallHasMergedUsr ==
    /\ call = NoCall
    /\ call' = [op |-> "HasMergedUsr", args |-> <<>>, result |-> Go("HasMergedUsr", <<fs>>)]
    /\ CallFrame

\* Names in snake case: those of TestNameToField without their prefix,
\* names with empty segments, the empty name, a segment that begins with a
\* digit, and names with the segment "deviceinfo"
SnakeNames ==
    { <<"d", "t", "b">>, <<"i", "n", "i", "t", "f", "s", "_", "c", "o", "m", "p", "r", "e", "s", "s", "i", "o", "n">>, <<"m", "o", "d", "u", "l", "e", "s", "_", "i", "n", "i", "t", "f", "s">>, <<"i", "n", "i", "t", "f", "s", "_", "c", "o", "m", "p", "r", "e", "s", "s", "i", "o", "n", "_", "_", "_">>,
      <<"i", "n", "i", "t", "f", "s", "_", "e", "x", "t", "r", "a", "_", "c", "o", "m", "p", "r", "e", "s", "s", "i", "o", "n">>, <<"c", "r", "e", "a", "t", "e", "_", "i", "n", "i", "t", "f", "s", "_", "e", "x", "t", "r", "a">>, <<"_", "x">>, <<"a", "_", "_", "b">>, <<>>, <<"x">>,
      <<"2", "n", "d", "_", "s", "t", "a", "g", "e">>, <<"d", "e", "v", "i", "c", "e", "i", "n", "f", "o">>, <<"m", "y", "_", "d", "e", "v", "i", "c", "e", "i", "n", "f", "o", "_", "x">>, <<"d", "e", "v", "i", "c", "e", "i", "n", "f", "o", "_", "d", "t", "b">>, <<"d", "e", "v", "i", "c", "e", "i", "n", "f", "o", "x", "_", "y">> }

DeviceinfoPrefix == <<"d", "e", "v", "i", "c", "e", "i", "n", "f", "o", "_">>

\* field := nameToField(name)
CallNameToField(name) ==
    /\ call = NoCall
    /\ call' = [op |-> "nameToField", args |-> <<name>>, result |-> Go("nameToField", <<name>>)]
    /\ CallFrame

\* The sources and destinations given to AddItem: the symlinks, a file, a
\* directory and a missing path, under their own path and under another
AddItemInputs ==
    { <<<<"/", "t", "/", "a">>, <<"/", "t", "/", "a">>>>, <<<<"/", "t", "/", "b">>, <<"/", "x", "/", "y", "/", "b">>>>, <<<<"/", "t", "/", "c">>, <<"/", "t", "/", "c">>>>,
      <<<<"/", "t", "/", "s", "y", "m", "l", "i", "n", "k", ".", "t", "x", "t">>, <<"/", "t", "/", "s", "y", "m", "l", "i", "n", "k", ".", "t", "x", "t">>>>, <<<<"/", "t", "/", "r", "e", "l">>, <<"/", "r", "/", "r", "e", "l">>>>,
      <<<<"/", "t", "/", "t", "a", "r", "g", "e", "t", ".", "t", "x", "t">>, <<"/", "o", "/", "t", "a", "r", "g", "e", "t", ".", "t", "x", "t">>>>, <<<<"/", "t">>, <<"/", "t">>>>, <<<<"/", "t", "/", "m", "i", "s", "s", "i", "n", "g">>, <<"/", "m", "/", "n">>>> }

\* err := archive.AddItem(source, dest) on a new archive
CallAddItem(source, dest) ==
    /\ call = NoCall
    /\ call' = [op |-> "AddItem", args |-> <<source, dest>>,
                result |-> Go("AddItem", <<fs, <<>>, source, dest>>)]
    /\ CallFrame

\* The formats an Archive is made with, one of them unknown; the modes of
\* the output file; the calls of Archive.Write that can fail
WriteFormats == { <<"g", "z", "i", "p">>, <<"l", "z", "m", "a">>, <<"l", "z", "4">>, <<"n", "o", "n", "e">>, <<"z", "s", "t", "d">>, <<"b", "z", "i", "p">> }

WriteModes == { "0644", "0600" }

WriteFailures ==
    { "none", "writeCpio", "cpioClose", "create", "copy", "sync", "chmod", "close",
      "chmod again" }

\* err := archive.Write(path, mode)
CallWrite(format, mode, fail) ==
    /\ call = NoCall
    /\ call' = [op |-> "Write", args |-> <<format, mode, fail>>,
                result |-> Go("Write", <<format, mode, fail>>)]
    /\ CallFrame

\* The lists given to GetFiles: a binary, a library and then the binary, a
\* directory, a glob, a symlink to a binary
GetFilesInputs ==
    { << <<"/", "u", "s", "r", "/", "b", "i", "n", "/", "a", "p", "p">> >>, << <<"/", "u", "s", "r", "/", "l", "i", "b", "/", "l", "i", "b", "a">>, <<"/", "u", "s", "r", "/", "b", "i", "n", "/", "a", "p", "p">> >>,
      << <<"/", "t", "/", "d">> >>, << <<"/", "u", "s", "r", "/", "b", "i", "n", "/", "*">> >>, << <<"/", "u", "s", "r", "/", "b", "i", "n", "/", "s", "h">> >> }

\* files, err := misc.GetFiles(list, required)
CallGetFiles(list, required) ==
    /\ call = NoCall
    /\ call' = [op |-> "GetFiles", args |-> <<list, required>>,
                result |-> Go("GetFiles", <<fs, list, required>>)]
    /\ CallFrame

\* The lines of a hook file: a source alone, with a destination, with an
\* empty destination, with a second colon; a source that is missing
SlurpLines ==
    { <<"/", "t", "/", "t", "a", "r", "g", "e", "t", ".", "t", "x", "t">>, <<"/", "t", "/", "t", "a", "r", "g", "e", "t", ".", "t", "x", "t", ":", "/", "d", "/", "t">>, <<"/", "t", "/", "t", "a", "r", "g", "e", "t", ".", "t", "x", "t", ":">>, <<"/", "u", "s", "r", "/", "b", "i", "n", "/", "x", ":">>,
      <<"/", "u", "s", "r", "/", "b", "i", "n", "/", "x", ":", "/", "x", ":", "y">>, <<"/", "u", "s", "r", "/", "b", "i", "n", "/", "x">>, <<"/", "t", "/", "m", "i", "s", "s", "i", "n", "g", ":", "/", "m">> }

SlurpInputs == { <<l>> : l \in SlurpLines } \cup { <<<<"/", "u", "s", "r", "/", "b", "i", "n", "/", "x", ":", "/", "a">>, <<"/", "u", "s", "r", "/", "b", "i", "n", "/", "x", ":">>>> }

\* files, err := slurpFiles(fd)
CallSlurpFiles(lines) ==
    /\ call = NoCall
    /\ call' = [op |-> "slurpFiles", args |-> <<lines>>, result |-> Go("slurpFiles", <<fs, lines>>)]
    /\ CallFrame

\* The files given to getBinaryDeps: a binary, a symlink to one, a library,
\* a library by its path under /lib, a file that is no ELF file, none
BinaryDepsInputs ==
    { <<"/", "u", "s", "r", "/", "b", "i", "n", "/", "a", "p", "p">>, <<"/", "u", "s", "r", "/", "b", "i", "n", "/", "s", "h">>, <<"/", "u", "s", "r", "/", "l", "i", "b", "/", "l", "i", "b", "a">>, <<"/", "l", "i", "b", "/", "l", "i", "b", "a">>, <<"/", "t", "/", "d", "/", "a">>,
      <<"/", "t", "/", "m", "i", "s", "s", "i", "n", "g">> }

\* files, err := getBinaryDeps(file)
CallGetBinaryDeps(file) ==
    /\ call = NoCall
    /\ call' = [op |-> "getBinaryDeps", args |-> <<file>>, result |-> Go("getBinaryDeps", <<fs, file>>)]
    /\ CallFrame

NextCalls ==
    \/ \E file \in BinaryDepsInputs : CallGetBinaryDeps(file)
    \/ \E format \in WriteFormats, mode \in WriteModes, fail \in WriteFailures :
           CallWrite(format, mode, fail)
    \/ \E p \in AddItemInputs : CallAddItem(p[1], p[2])
    \/ \E s \in SnakeNames, pre \in {<<>>, DeviceinfoPrefix} : CallNameToField(pre \o s)
    \/ \E list \in GetFilesInputs, required \in BOOLEAN : CallGetFiles(list, required)
    \/ \E lines \in SlurpInputs : CallSlurpFiles(lines)
    \/ \E file \in MergeUsrInputs : CallMergeUsr(file)
    \/ CallHasMergedUsr
    \/ \E modName \in ModNames, lines \in ModulesDepFiles :
           CallGetModuleDeps(modName, lines)
    \/ \E file \in GetFileInputs, required \in BOOLEAN : CallGetFile(file, required)
    \/ \E s \in ExtractInputs : CallExtractFormatLevel(s)

SpecCalls == InitCalls /\ [][NextCalls]_vars

\* file is a symlink that leads to a node of the kind given
SymlinkTo(f, file, kind) ==
    /\ Go("Lstat", <<f, file>>).err = "nil" /\ Go("Lstat", <<f, file>>).node.kind = "link"
    /\ Go("Stat", <<f, file>>).err = "nil" /\ Go("Stat", <<f, file>>).node.kind = kind

\* The regular files beneath the directory dir
FilesBeneath(f, dir) ==
    { p \in DOMAIN f : HasPrefix(p, dir \o <<"/">>) /\ f[p].kind = "file" }

\* C13: getFile of a symlink to a directory returns (the recursion ends),
\* without error, the symlink path and every regular file beneath the
\* directory the symlink leads to.
C13_SymlinkToDirectoryTerminates ==
    (call.op = "getFile" /\ SymlinkTo(fs, call.args[1], "dir")) =>
        /\ ~call.result.crashed
        /\ call.result.err = "nil"
        /\ call.result.files
               = {call.args[1]} \cup FilesBeneath(fs, Go("Stat", <<fs, call.args[1]>>).path)

\* C14: getFile of a symlink to a regular file that is no ELF binary
\* returns the symlink path and the path of the file it leads to, and
\* nothing else.
C14_SymlinkToFileReturnsBoth ==
    (call.op = "getFile" /\ SymlinkTo(fs, call.args[1], "file")
         /\ ~Go("ElfOpen", <<fs, call.args[1]>>)) =>
        /\ ~call.result.crashed
        /\ call.result.err = "nil"
        /\ call.result.files = {call.args[1], Go("Stat", <<fs, call.args[1]>>).path}

\* The sibling P.zst of a path P
Sibling(file) == file \o <<".", "z", "s", "t">>

\* file matches no glob expansion and stat of it fails
MissingPlain(f, file) == Go("Glob", <<f, file>>) \subseteq {file} /\ Go("Stat", <<f, file>>).err # "nil"

\* The result of getFile for a missing path without a fallback
NothingFound(r, required) ==
    /\ ~r.crashed
    /\ r.files = {}
    /\ IF required THEN r.err # "nil" ELSE r.err = "nil"

\* The result of getFile is the one for the path found instead, a regular
\* file that is no ELF binary giving itself alone
FoundInstead(f, r, file, instead, required) ==
    /\ r = Go("getFileNormalized", <<f, instead, required>>)
    /\ file \notin r.files
    /\ (Go("Stat", <<f, instead>>).node.kind = "file" /\ ~Go("ElfOpen", <<f, instead>>)) =>
           (r.files = {instead} /\ r.err = "nil" /\ ~r.crashed)

\* C15: for a path P that matches no glob expansion and does not exist,
\* getFile returns the result for P.zst, without P, when P.zst exists, and
\* otherwise no files, with an error exactly when required is true.
C15_ZstFallbackOrNothing ==
    (call.op = "getFile" /\ MissingPlain(fs, call.args[1])) =>
        IF Go("Stat", <<fs, Sibling(call.args[1])>>).err = "nil"
            THEN FoundInstead(fs, call.result, call.args[1], Sibling(call.args[1]),
                              call.args[2])
        ELSE NothingFound(call.result, call.args[2])

\* P begins with /bin/ or /sbin/ and /usr/P exists
UsrFallback(f, file) ==
    /\ HasPrefix(file, BinSlash) \/ HasPrefix(file, SbinSlash)
    /\ Go("Stat", <<f, Go("Join", <<Usr, file>>)>>).err = "nil"

\* C15 (amended): as C15, after the fallback for paths under /bin/ and
\* /sbin/: when /usr/P exists getFile returns the result for /usr/P,
\* whether or not P.zst exists.
C15_UsrThenZstFallbackOrNothing ==
    (call.op = "getFile" /\ MissingPlain(fs, call.args[1])) =>
        IF UsrFallback(fs, call.args[1])
            THEN FoundInstead(fs, call.result, call.args[1], Go("Join", <<Usr, call.args[1]>>),
                              call.args[2])
        ELSE IF Go("Stat", <<fs, Sibling(call.args[1])>>).err = "nil"
            THEN FoundInstead(fs, call.result, call.args[1], Sibling(call.args[1]),
                              call.args[2])
        ELSE NothingFound(call.result, call.args[2])

\* getFile has returned the compressed firmware file for the plain name
C15_Witness ==
    /\ call.op = "getFile" /\ MissingPlain(fs, call.args[1])
    /\ ~UsrFallback(fs, call.args[1])
    /\ call.result.files = {Sibling(call.args[1])}

Formats == { <<"g", "z", "i", "p">>, <<"l", "z", "m", "a">>, <<"l", "z", "4">>, <<"z", "s", "t", "d">>, <<"n", "o", "n", "e">> }

Levels == { <<"d", "e", "f", "a", "u", "l", "t">>, <<"f", "a", "s", "t">>, <<"b", "e", "s", "t">> }

\* The positions of the colons of s
Colons(s) == { i \in 1..Len(s) : s[i] = ":" }

\* s in lower case, letter by letter
Lower(s) ==
    [i \in 1..Len(s) |->
        IF \E k \in 1..Len(UpperCase) : UpperCase[k] = s[i]
            THEN LowerCase[CHOOSE k \in 1..Len(UpperCase) : UpperCase[k] = s[i]]
        ELSE s[i]]

\* C16: ExtractFormatLevel(s) is a supported format and a level: the text
\* before the first colon in lower case when that is a supported format and
\* gzip otherwise; the text after the first colon in lower case when that is
\* a level, the format is not lzma and there is a colon, and default
\* otherwise.
C16_ExtractFormatLevelTotal ==
    call.op = "ExtractFormatLevel" =>
        LET s == call.args[1]
            first == IF Colons(s) = {} THEN Len(s) + 1
                     ELSE CHOOSE i \in Colons(s) : \A j \in Colons(s) : i <= j
            before == Lower(SubSeq(s, 1, first - 1))
            after == Lower(SubSeq(s, first + 1, Len(s))) IN
        /\ call.result.format \in Formats
        /\ call.result.level \in Levels
        /\ call.result.format = IF before \in Formats THEN before ELSE <<"g", "z", "i", "p">>
        /\ call.result.level =
               IF Colons(s) # {} /\ after \in Levels /\ call.result.format # <<"l", "z", "m", "a">>
                   THEN after ELSE <<"d", "e", "f", "a", "u", "l", "t">>

\* "Lzma:fast" has given lzma with the default level
C16_Witness ==
    /\ call.op = "ExtractFormatLevel"
    /\ call.args[1] = <<"L", "z", "m", "a", ":", "f", "a", "s", "t">>
    /\ call.result = [format |-> <<"l", "z", "m", "a">>, level |-> <<"d", "e", "f", "a", "u", "l", "t">>]

\* x with every run of "-" and "_" replaced by one "_"
Canonical(x) ==
    LET keep == { i \in 1..Len(x) :
                    ~(x[i] \in {"-", "_"} /\ i > 1 /\ x[i - 1] \in {"-", "_"}) }
        nth(k) == CHOOSE i \in keep : Cardinality({ j \in keep : j < i }) = k - 1 IN
    [k \in 1..Cardinality(keep) |-> IF x[nth(k)] = "-" THEN "_" ELSE x[nth(k)]]

\* The module file name of a line of modules.dep: the base name of its
\* first field, without the colon, up to the first "."
ModuleFileName(line) ==
    LET path == Go("TrimSuffix", <<Go("Fields", <<line>>)[1], <<":">>>>)
        dots == { i \in 1..Len(path) : path[i] = "." }
        stem == IF dots = {} THEN path
                ELSE SubSeq(path, 1, (CHOOSE i \in dots : \A j \in dots : i <= j) - 1) IN
    Go("Base", <<stem>>)

\* The lines of modules.dep whose module file name is the requested name
MatchingLines(modName, lines) ==
    { i \in 1..Len(lines) :
        /\ Len(Go("Fields", <<lines[i]>>)) > 0
        /\ Canonical(ModuleFileName(lines[i])) = Canonical(modName) }

\* C17: getModuleDeps returns the fields of the first line whose module
\* file name is the requested name, whole, runs of "-" and "_" counting as
\* equal: the module path and then its dependencies in the order of the
\* line; and nothing when no line matches.
C17_FirstWholeNameMatch ==
    call.op = "getModuleDeps" =>
        LET modName == call.args[1]
            lines == call.args[2]
            matching == MatchingLines(modName, lines) IN
        IF matching = {} THEN call.result = <<>>
        ELSE LET i == CHOOSE x \in matching : \A y \in matching : x <= y
                 fields == Go("Fields", <<lines[i]>>) IN
             call.result = <<Go("TrimSuffix", <<fields[1], <<":">>>>)>> \o Tail(fields)

\* path begins with dir and a slash
Under(path, dir) ==
    /\ Len(path) > Len(dir)
    /\ SubSeq(path, 1, Len(dir) + 1) = dir \o <<"/">>

\* path with dir at its beginning replaced by to
Moved(path, dir, to) == to \o SubSeq(path, Len(dir) + 1, Len(path))

\* C18: MergeUsr(p) is /usr followed by p when p begins with /bin/, /sbin/,
\* /lib/ or /lib64/, and p itself for every other path.
C18_MergeUsrPrependsForTheFourDirectories ==
    call.op = "MergeUsr" =>
        LET p == call.args[1] IN
        call.result =
            IF \E d \in { <<"/", "b", "i", "n">>, <<"/", "s", "b", "i", "n">>, <<"/", "l", "i", "b">>, <<"/", "l", "i", "b", "6", "4">> } : Under(p, d)
                THEN <<"/", "u", "s", "r">> \o p
            ELSE p

\* C19: MergeUsr maps the paths under /sbin/ and under /usr/sbin/ to the
\* same name under /usr/bin/, those under /bin/ to /usr/bin/, under /lib/
\* to /usr/lib/, under /lib64/ to /usr/lib64/, and leaves those under
\* /usr/bin/ as they are.
C19_MergeUsrFoldsSbinIntoBin ==
    call.op = "MergeUsr" =>
        LET p == call.args[1] IN
        /\ Under(p, <<"/", "s", "b", "i", "n">>) => call.result = Moved(p, <<"/", "s", "b", "i", "n">>, <<"/", "u", "s", "r", "/", "b", "i", "n">>)
        /\ Under(p, <<"/", "u", "s", "r", "/", "s", "b", "i", "n">>) => call.result = Moved(p, <<"/", "u", "s", "r", "/", "s", "b", "i", "n">>, <<"/", "u", "s", "r", "/", "b", "i", "n">>)
        /\ Under(p, <<"/", "b", "i", "n">>) => call.result = Moved(p, <<"/", "b", "i", "n">>, <<"/", "u", "s", "r", "/", "b", "i", "n">>)
        /\ Under(p, <<"/", "l", "i", "b">>) => call.result = Moved(p, <<"/", "l", "i", "b">>, <<"/", "u", "s", "r", "/", "l", "i", "b">>)
        /\ Under(p, <<"/", "l", "i", "b", "6", "4">>) => call.result = Moved(p, <<"/", "l", "i", "b", "6", "4">>, <<"/", "u", "s", "r", "/", "l", "i", "b", "6", "4">>)
        /\ Under(p, <<"/", "u", "s", "r", "/", "b", "i", "n">>) => call.result = p

\* What /bin and /lib are on the host: "link", "dir" or "none"
KindAt(f, p) ==
    IF p \notin DOMAIN f THEN "none" ELSE IF f[p].kind = "link" THEN "link" ELSE "dir"

\* C20: HasMergedUsr answers true when /bin or /lib is a symlink and when
\* both are missing, and false when both are present and no symlink.
C20_HasMergedUsrTable ==
    call.op = "HasMergedUsr" =>
        LET bin == KindAt(fs, Bin)
            lib == KindAt(fs, Lib) IN
        /\ (bin = "link" \/ lib = "link") => call.result = TRUE
        /\ (bin = "none" /\ lib = "none") => call.result = TRUE
        /\ (bin = "dir" /\ lib = "dir") => call.result = FALSE

\* C20 (amended): HasMergedUsr looks at /bin and then at /lib and answers
\* at the first that is missing (true) or present and no symlink (false);
\* it answers true when both are symlinks.
C20_HasMergedUsrFirstDecides ==
    call.op = "HasMergedUsr" =>
        LET bin == KindAt(fs, Bin)
            lib == KindAt(fs, Lib) IN
        call.result = CASE bin = "none" -> TRUE
                        [] bin = "dir" -> FALSE
                        [] bin = "link" /\ lib = "dir" -> FALSE
                        [] OTHER -> TRUE

\* /bin is a symlink and /lib a directory, and the answer was false
C20_Witness ==
    /\ call.op = "HasMergedUsr"
    /\ KindAt(fs, Bin) = "link" /\ KindAt(fs, Lib) = "dir"
    /\ call.result = FALSE

----------------------------------------------------------------------------
(* Hook files *)

\* The source and the destination a line "src[:dest]" stands for, an empty
\* destination standing for the source
LineSource(line) ==
    LET colons == { i \in 1..Len(line) : line[i] = ":" } IN
    IF colons = {} THEN line
    ELSE SubSeq(line, 1, (CHOOSE i \in colons : \A j \in colons : i <= j) - 1)

LineDest(line) ==
    LET rest == SubSeq(line, Len(LineSource(line)) + 2, Len(line)) IN
    IF rest = <<>> THEN LineSource(line) ELSE rest

\* A plain file that is not an ELF binary: GetFiles yields it alone
PlainFile(f, p) ==
    /\ p \in DOMAIN f
    /\ f[p].kind = "file"
    /\ ~f[p].elf
    /\ \A q \in DOMAIN f : f[q].kind # "link"

\* C21: for a hook file of one line, slurpFiles records the source under
\* the destination of the line: b for "a:b", a for "a" and a for "a:"
C21_SlurpFilesDestinations ==
    (/\ call.op = "slurpFiles"
     /\ Len(call.args[1]) = 1
     /\ PlainFile(fs, LineSource(call.args[1][1])))
    => /\ call.result.err = "nil"
       /\ ~call.result.crashed
       /\ call.result.list =
              (LineSource(call.args[1][1]) :> LineDest(call.args[1][1]))

----------------------------------------------------------------------------
(* Library dependencies *)

\* The directories getDeps searches: /usr/lib, /lib and what /usr/lib/expect*
\* matches
SearchDirs(f) ==
    { <<"/", "u", "s", "r", "/", "l", "i", "b">>, <<"/", "l", "i", "b">> }
        \cup { p \in DOMAIN f : Go("Dir", <<p>>) = <<"/", "u", "s", "r", "/", "l", "i", "b">> /\ HasPrefix(Go("Base", <<p>>), <<"e", "x", "p", "e", "c", "t">>) }

\* No search directory holds lib
InNoSearchDir(f, lib) == \A d \in SearchDirs(f) : Go("Stat", <<f, Go("Join", <<d, lib>>)>>).err # "nil"

\* The files an entry of a list names: the entry, the files beneath it when
\* it is a directory, the files of its directory when it ends in "/*"; each
\* as the file it resolves to
NamedBy(f, e) ==
    { Go("Stat", <<f, p>>).path :
        p \in { q \in DOMAIN f : /\ f[q].kind # "dir"
                                 /\ \/ q = e
                                    \/ Under(q, e)
                                    \/ Go("Base", <<e>>) = <<"*">> /\ Go("Dir", <<q>>) = Go("Dir", <<e>>) } }

\* The ELF files GetFiles comes to for a list: those it names and every
\* library found for one of them
ElfReached(f, list) ==
    LibClosure(f, { x \in UNION { NamedBy(f, list[i]) : i \in DOMAIN list } :
                        Go("ElfOpen", <<f, x>>) })

\* x needs a library that no search directory holds
LacksLibrary(f, x) ==
    \E i \in DOMAIN Go("ImportedLibraries", <<f, x>>) : InNoSearchDir(f, Go("ImportedLibraries", <<f, x>>)[i])

----------------------------------------------------------------------------
(* Field names *)

\* The segments of s between "_", in order
Segments(s) ==
    LET cuts == <<0>> \o SelectSeq([i \in 1..Len(s) |-> IF s[i] = "_" THEN i ELSE 0],
                                   LAMBDA i : i > 0) \o <<Len(s) + 1>> IN
    [k \in 1..(Len(cuts) - 1) |-> SubSeq(s, cuts[k] + 1, cuts[k + 1] - 1)]

\* The segments with their first character in upper case, one after the
\* other, those of the set skip left out
RECURSIVE PascalCase(_, _)
PascalCase(segs, skip) ==
    IF segs = <<>> THEN <<>>
    ELSE IF Head(segs) \in skip THEN PascalCase(Tail(segs), skip)
    ELSE <<ToUpperChar(Head(segs)[1])>> \o Tail(Head(segs)) \o PascalCase(Tail(segs), skip)

\* C23 as stated: nameToField of s and of "deviceinfo_" + s are both the
\* segments of s, the empty ones dropped, each with its first character in
\* upper case
C23_NameToFieldIsPascalCase ==
    call.op = "nameToField" =>
        \A s \in SnakeNames :
            call.args[1] \in { s, DeviceinfoPrefix \o s }
                => call.result = PascalCase(Segments(s), { <<>> })

\* C23: nameToField of s and of "deviceinfo_" + s are both the segments of
\* s, the empty ones and the segments "deviceinfo" dropped, each with its
\* first character in upper case
C23_NameToFieldDropsDeviceinfo ==
    call.op = "nameToField" =>
        \A s \in SnakeNames :
            call.args[1] \in { s, DeviceinfoPrefix \o s }
                => call.result = PascalCase(Segments(s), { <<>>, <<"d", "e", "v", "i", "c", "e", "i", "n", "f", "o">> })

\* nameToField has been applied to a name with the prefix and with empty
\* segments
C23_Witness ==
    /\ call.op = "nameToField"
    /\ call.args[1] = <<"d", "e", "v", "i", "c", "e", "i", "n", "f", "o", "_", "i", "n", "i", "t", "f", "s", "_", "c", "o", "m", "p", "r", "e", "s", "s", "i", "o", "n", "_", "_", "_">>
    /\ call.result = <<"I", "n", "i", "t", "f", "s", "C", "o", "m", "p", "r", "e", "s", "s", "i", "o", "n">>

----------------------------------------------------------------------------
(* AddItem on symlinks *)

\* C24: on every host, also one with a symlink whose chain of targets
\* leads back to itself, Archive.AddItem returns.
C24_AddItemTerminates ==
    call.op = "AddItem" => ~call.result.crashed

----------------------------------------------------------------------------
(* Parent directories *)

\* The directories above an archive name
DirsAbove(name) == { SubSeq(name, 1, i - 1) : i \in { j \in 2..Len(name) : name[j] = "/" } }

\* its holds a directory item for every directory above it
HasParents(its, it) ==
    \A d \in DirsAbove(it.name) : \E x \in Range(its) : x.name = d /\ x.mode = "dir"

\* C25: after any sequence of AddItem calls, the archive holds a directory
\* item for every directory above each of its items, be the item a regular
\* file, a directory or a symlink.
C25_ParentDirectoriesArchived ==
    \A it \in Range(items) : HasParents(items, it)

----------------------------------------------------------------------------
(* The output file *)

\* C26: when Archive.Write returns nil, whatever the compression format,
\* everything written to the output file, the bytes the compressor writes
\* when it is closed included, was in the file when fd.Sync returned, and
\* the file has the mode given to Write.
C26_SyncedAfterLastByteAndMode ==
    (call.op = "Write" /\ ~call.result.panicked /\ call.result.err = "nil")
    => /\ call.result.file.exists
       /\ call.result.file.synced = Len(call.result.file.data)
       /\ call.result.file.mode = call.args[2]

\* C28: when the output file cannot be created, Archive.Write returns an
\* error, whatever the compression format: it does not panic on a
\* compressor that has not been set up and it does not return nil.
C28_CreateFailureIsReturned ==
    (call.op = "Write" /\ call.args[3] = "create")
    => /\ ~call.result.panicked
       /\ call.result.err # "nil"

----------------------------------------------------------------------------
(* Errors of a symlink's target *)

\* The path addSymlink adds for the target of the symlink at source
TargetOf(f, source) ==
    LET t == f[source].target IN
    ArchSource(f, IF IsAbs(t) THEN t ELSE Go("Join", <<Go("Dir", <<source>>), t>>))

\* src is a symlink whose target cannot be examined, for another reason than
\* its not being there
TargetFails(f, src) ==
    /\ ArchSource(f, src) \in DOMAIN f
    /\ f[ArchSource(f, src)].kind = "link"
    /\ Go("Lstat", <<f, TargetOf(f, ArchSource(f, src))>>).err \notin {"nil", "ENOENT"}

\* C27: once AddItems has come to a symlink whose target cannot be added,
\* AddItems has failed with that error and the archive has no item for the
\* symlink.
C27_TargetErrorIsReturned ==
    \A src \in DOMAIN flist :
        (stage # "build" /\ src \notin pending /\ TargetFails(fs, src))
        => /\ stage = "failed"
           /\ \A it \in Range(items) :
                  ~(it.mode = "symlink" /\ it.sourcePath = ArchSource(fs, src))


----------------------------------------------------------------------------
(* A receiver that stops receiving, or adds to the list it iterates      *)

\* C29: once the receiver of IterItems has returned from its loop the
\* goroutine of the iteration comes to release its read lock, and every
\* Add that has been called, that of a receiver adding to the list it
\* iterates included, comes to return.
C29_IterationNeverBlocksAdd ==
    /\ (filelist.consumer = "stopped") ~> ("iter" \notin filelist.readers)
    /\ \A a \in AllAdders :
           (filelist.add[a].pc \in {"lock", "acquire"}) ~> (filelist.add[a].pc = "done")


----------------------------------------------------------------------------
(* The visited set of getBinaryDeps *)

\* The file whose dependencies getBinaryDeps lists: the file, or the target
\* of the symlink it is
DepsStart(f, file) ==
    LET st == Go("Lstat", <<f, file>>) IN
    IF st.node.kind # "link" THEN file
    ELSE IF IsAbs(st.node.target) THEN st.node.target
    ELSE Go("RelativeSymlinkTargetToDir", <<f, st.node.target, Go("Dir", <<file>>)>>).path

====
